---- MODULE Spec2Model ----
(***************************************************************************)
(* The bazo virtual machine (vm/vm.go): the gas-metered fetch / decode /   *)
(* dispatch loop of VM.Exec, one action per opcode case, over an           *)
(* evaluation stack of big integers, a call stack of frames and the        *)
(* host's contract variables.                                              *)
(*                                                                         *)
(* The Stack, CallStack, Map, Array, OpCodes table and the host Context    *)
(* are not part of vm.go; they are modelled from the specification         *)
(* (sections 3, 4.2 - 4.6) and marked so in MODEL_MAP.json.                *)
(*                                                                         *)
(* Two further components have a specification of their own: the miner's   *)
(* block intake (incomingData and processBlock, MinerSpec) and the p2p     *)
(* server's peer lifecycle (bootstrap, peerConn, peerService, P2PSpec).    *)
(* Each specification holds the variables of the other components fixed.   *)
(***************************************************************************)
EXTENDS Integers, Sequences, FiniteSets, TLC

VARIABLES
    trace,              \* the argument of Exec: whether each iteration is traced
    context,            \* the host Context: contract, fee, transaction data
    contractVariables,  \* the host's storage cells (Get/SetContractVariable)
    code,               \* vm.code
    pc,                 \* vm.pc
    evaluationStack,    \* vm.evaluationStack.Stack, bottom first
    callStack,          \* vm.callStack, bottom first
    fee,                \* the local `fee` of Exec: the remaining gas
    result,             \* "init", "running", or how Exec ended: "true", "false", "panic"
    lastOp,             \* history: the opcode last dispatched (-1: none)
    spent,              \* history: the sum of gasPrice over the dispatched opcodes
    calls,              \* history: number of frames pushed by call / callif
    rets,               \* history: number of frames popped by ret
    ctxCalls,           \* history: the Get/SetContractVariable calls, in order
    BlockIn,            \* miner: the channel p2p.BlockIn, oldest payload first
    at,                 \* miner: where each goroutine stands in incomingData / processBlock
    block,              \* miner: the local `block` of each goroutine (0: none)
    processBlockMutex,  \* miner: the goroutine holding the mutex (0: unlocked)
    closedBlocks,       \* miner: the hashes storage.ReadClosedBlock finds
    receivedStash,      \* miner: the blocks given to storage.WriteToReceivedStash
    receivedBlockInTheMeantime, \* miner: the package flag of that name
    validated,          \* miner history: the blocks given to validate, in order
    broadcast,          \* miner: the blocks handed to `go broadcastBlock`
    delivered,          \* miner history: number of payloads the network has delivered
    acquired,           \* miner history: Lock calls of each goroutine in its current call
    released,           \* miner history: Unlock calls of each goroutine in its current call
    serverAt,           \* p2p: where Init stands: "bootstrap", then "listening"
    bootstrapServer,    \* p2p: the address storage.Bootstrap_Server
    peerStructs,        \* p2p: the peer structs newPeer made; a *peer is an index, 0 is nil
    conns,              \* p2p: the peerConn goroutines: their argument p and where they stand
    minerConns,         \* p2p: peers.minerConns
    clientConns,        \* p2p: peers.clientConns
    panicked,           \* p2p: a goroutine has dereferenced a nil *peer
    history             \* p2p history: for each peer struct, what its peerConn has done

vmVars == <<trace, context, contractVariables, code, pc, evaluationStack, callStack, fee,
            result, lastOp, spent, calls, rets, ctxCalls>>

minerVars == <<BlockIn, at, block, processBlockMutex, closedBlocks, receivedStash,
               receivedBlockInTheMeantime, validated, broadcast, delivered,
               acquired, released>>

p2pVars == <<serverAt, bootstrapServer, peerStructs, conns, minerConns, clientConns,
             panicked, history>>

vars == <<vmVars, minerVars, p2pVars>>

-----------------------------------------------------------------------------
(* Bounds of the model *)

\* the evaluation stack's memory quota in bytes (implementation-defined in
\* the specification; scaled down so that programs of a few bytes reach it)
MemoryMax == 128
\* the fees GetFee() may return are 0 .. MaxFee
MaxFee == 4
\* the enumerated contracts hold at most MaxInstr instructions of the menu
MaxInstr == 2
\* a fee that pays for every instruction of the contracts written out
AmpleFee == 40
\* the goroutines that call processBlock are 1 .. MaxCallers
MaxCallers == 2
\* the blocks the network knows are 1 .. MaxBlocks
MaxBlocks == 2
\* the network delivers at most MaxDeliveries payloads on BlockIn
MaxDeliveries == 3
\* newPeer makes at most MaxPeers peer structs
MaxPeers == 3
\* a peer sends at most MaxMsgs messages before its connection fails
MaxMsgs == 1
\* the network addresses are 1 .. MaxAddrs
MaxAddrs == 2

\* vm.go:109
MaxCodeSize == 100000

-----------------------------------------------------------------------------
(* Opcodes: the numbering of the OpCodes table, in the order of Exec's switch *)

PUSH == 0
DUP == 1
ROLL == 2
POP == 3
ADD == 4
SUB == 5
MULT == 6
DIV == 7
MOD == 8
NEG == 9
EQ == 10
NEQ == 11
LT == 12
GT == 13
LTE == 14
GTE == 15
SHIFTL == 16
SHIFTR == 17
NOP == 18
JMP == 19
JMPIF == 20
CALL == 21
CALLIF == 22
CALLEXT == 23
RET == 24
SIZE == 25
SSTORE == 26
STORE == 27
SLOAD == 28
LOAD == 29
ADDRESS == 30
ISSUER == 31
BALANCE == 32
CALLER == 33
CALLVAL == 34
CALLDATA == 35
NEWMAP == 36
MAPPUSH == 37
MAPGETVAL == 38
MAPSETVAL == 39
MAPREMOVE == 40
NEWARR == 41
ARRAPPEND == 42
ARRINSERT == 43
ARRREMOVE == 44
ARRAT == 45
SHA3 == 46
CHECKSIG == 47
ERRHALT == 48
HALT == 49

\* len(OpCodes)
OpCodesLen == 50

\* OpCodes[op].gasPrice
GasPrice(op) ==
    CASE op \in {HALT, ERRHALT} -> 0
      [] op = SLOAD -> 2
      [] op = SSTORE -> 3
      [] OTHER -> 1

\* OpCodes[op].Nargs: the immediate-operand bytes the opcode's case reads
\* (push reads its length byte and, by it, its value bytes)
Nargs(op) ==
    CASE op \in {PUSH, ROLL, SHIFTL, SHIFTR, NOP, SSTORE, STORE, SLOAD, LOAD} -> 1
      [] op \in {JMP, JMPIF, ARRREMOVE, ARRAT} -> 2
      [] op \in {CALL, CALLIF} -> 3
      [] op = CALLEXT -> 37
      [] OTHER -> 0

-----------------------------------------------------------------------------
(* Values of the evaluation stack: big.Int words.  A word whose magnitude  *)
(* has at most three bytes is kept as an integer (kind "int", in num); a   *)
(* longer magnitude is kept as its big-endian bytes (kind "bytes", first   *)
(* byte non-zero).  StrToBigInt of an ASCII string is kept as the string   *)
(* (kind "str") and a SHA3-256 digest as the hashed bytes (kind "hash").   *)

BigInt(n) == [kind |-> "int", num |-> n, str |-> "", bytes |-> <<>>]
StrToBigInt(s) == [kind |-> "str", num |-> 0, str |-> s, bytes |-> <<>>]
Sha3Word(bs) == [kind |-> "hash", num |-> 0, str |-> "", bytes |-> bs]

Abs(n) == IF n < 0 THEN -n ELSE n

RECURSIVE NatBytes(_)
\* big-endian magnitude bytes of a natural number
NatBytes(n) == IF n = 0 THEN <<>> ELSE Append(NatBytes(n \div 256), n % 256)

RECURSIVE BytesToNat(_)
\* the unsigned big-endian value of a byte string
BytesToNat(bs) ==
    IF bs = <<>> THEN 0
    ELSE 256 * BytesToNat(SubSeq(bs, 1, Len(bs) - 1)) + bs[Len(bs)]

RECURSIVE StripZeros(_)
StripZeros(bs) ==
    IF bs # <<>> /\ bs[1] = 0 THEN StripZeros(Tail(bs)) ELSE bs

\* big.Int.SetBytes: leading zero bytes do not count
SetBytes(bs) ==
    IF Len(StripZeros(bs)) <= 3
    THEN BigInt(BytesToNat(StripZeros(bs)))
    ELSE [kind |-> "bytes", num |-> 0, str |-> "", bytes |-> StripZeros(bs)]

\* big.Int.Bytes: the magnitude, without leading zero bytes
Bytes(v) ==
    CASE v.kind = "int" -> NatBytes(Abs(v.num))
      [] v.kind = "bytes" -> v.bytes

\* the value of a word the arithmetic opcodes work on
Num(v) == CASE v.kind = "int" -> v.num

\* len(v.Bytes())
ByteLen(v) ==
    CASE v.kind = "int" -> Len(NatBytes(Abs(v.num)))
      [] v.kind = "bytes" -> Len(v.bytes)
      [] v.kind = "str" -> Len(v.str)
      [] v.kind = "hash" -> 32

RECURSIVE NextPow2(_, _)
NextPow2(n, p) == IF p >= n THEN p ELSE NextPow2(n, 2 * p)

\* getElementMemoryUsage: the byte length rounded up to a power of two, at least 8
getElementMemoryUsage(v) == NextPow2(ByteLen(v), 8)

-----------------------------------------------------------------------------
(* Stack *)

RECURSIVE memoryUsage(_)
memoryUsage(stk) ==
    IF stk = <<>> THEN 0
    ELSE getElementMemoryUsage(stk[1]) + memoryUsage(Tail(stk))

hasEnoughMemory(stk, v) == memoryUsage(stk) + getElementMemoryUsage(v) <= MemoryMax

\* Stack.Push: the element is appended unless the quota would be exceeded
StackPush(stk, v) ==
    IF hasEnoughMemory(stk, v)
    THEN [err |-> "", stack |-> Append(stk, v)]
    ELSE [err |-> "stack overflow", stack |-> stk]

\* Stack.Pop
StackPop(stk) ==
    IF Len(stk) > 0
    THEN [err |-> "", val |-> stk[Len(stk)], stack |-> SubSeq(stk, 1, Len(stk) - 1)]
    ELSE [err |-> "pop on empty stack", val |-> BigInt(0), stack |-> stk]

\* Stack.Peek
StackPeek(stk) ==
    IF Len(stk) > 0
    THEN [err |-> "", val |-> stk[Len(stk)]]
    ELSE [err |-> "peek on empty stack", val |-> BigInt(0)]

\* Stack.PopIndexAt: removes the element at index i, counted from the bottom (0-based)
StackPopIndexAt(stk, i) ==
    IF 0 <= i /\ i < Len(stk)
    THEN [err |-> "", val |-> stk[i + 1],
          stack |-> SubSeq(stk, 1, i) \o SubSeq(stk, i + 2, Len(stk))]
    ELSE [err |-> "index out of bounds", val |-> BigInt(0), stack |-> stk]

\* `vm.evaluationStack.Push(x)` with the returned error dropped
PushIgnoringError(stk, v) == StackPush(stk, v).stack

-----------------------------------------------------------------------------
(* fetch, fetchMany, checkErrors *)

instructionSetOutOfBounds == "instructionSet out of bounds"

\* VM.fetch at program counter p
fetch(p) ==
    IF Len(code) > p
    THEN [err |-> "", val |-> code[p + 1], pc |-> p + 1]
    ELSE [err |-> instructionSetOutOfBounds, val |-> 0, pc |-> p]

\* VM.fetchMany at program counter p
fetchMany(p, argument) ==
    IF Len(code) - p > argument
    THEN [err |-> "", val |-> SubSeq(code, p + 1, p + argument), pc |-> p + argument]
    ELSE [err |-> instructionSetOutOfBounds, val |-> <<>>, pc |-> p]

RECURSIVE FirstError(_)
\* the first non-nil error of checkErrors' arguments ("" is nil)
FirstError(errors) ==
    IF errors = <<>> THEN ""
    ELSE IF errors[1] # "" THEN errors[1] ELSE FirstError(Tail(errors))

-----------------------------------------------------------------------------
(* How one iteration of the loop ends *)

\* the iteration completes and the loop continues
Continue(p, es, cs) ==
    /\ result' = "running"
    /\ pc' = p
    /\ evaluationStack' = es
    /\ callStack' = cs

\* `vm.evaluationStack.Push(StrToBigInt(msg)); return false`
Fail(p, es, cs, msg) ==
    /\ result' = "false"
    /\ pc' = p
    /\ evaluationStack' = PushIgnoringError(es, StrToBigInt(msg))
    /\ callStack' = cs

\* `err = Push(v); if err != nil { Push(StrToBigInt(err.Error())); return false }`
PushChecked(p, es, cs, v) ==
    IF StackPush(es, v).err = ""
    THEN Continue(p, StackPush(es, v).stack, cs)
    ELSE Fail(p, es, cs, StackPush(es, v).err)

\* `Push(v)` with the error dropped, then the loop continues
PushUnchecked(p, es, cs, v) == Continue(p, PushIgnoringError(es, v), cs)

\* the opcodes that neither call the Context's storage nor touch the call stack depth
NoContextCall == UNCHANGED <<contractVariables, ctxCalls>>
NoFrameChange == UNCHANGED <<calls, rets>>

-----------------------------------------------------------------------------
(* Exec: prologue and the common head of every iteration *)

\* Exec up to the loop: load the contract, check its size, read the fee
ExecStart ==
    /\ result = "init"
    /\ code' = context.contract
    /\ IF Len(context.contract) > MaxCodeSize
       THEN /\ evaluationStack' =
                  PushIgnoringError(evaluationStack, StrToBigInt("Instruction set to big"))
            /\ result' = "false"
            /\ fee' = fee
       ELSE /\ evaluationStack' = evaluationStack
            /\ result' = "running"
            /\ fee' = context.fee
    /\ UNCHANGED <<minerVars, p2pVars, trace, context, pc, callStack, lastOp, spent>>
    /\ NoContextCall /\ NoFrameChange

\* trace(): an index expression of trace is out of range at program counter
\* p: `vm.code[vm.pc]`, `OpCodes[int(vm.code[vm.pc])]`, or push's
\* `vm.code[vm.pc+1]`
TraceIndexOutOfRange(p) ==
    IF p >= Len(code) THEN TRUE
    ELSE IF code[p + 1] >= OpCodesLen THEN TRUE
    ELSE code[p + 1] = PUSH /\ p + 1 >= Len(code)

\* trace(): the upper bound of the slice of vm.code that trace takes at
\* program counter p (0: it takes none): push slices
\* `vm.code[vm.pc+2 : vm.pc+nargs+3]` under its guard, the opcodes whose
\* case of `switch opCode.Name` is empty slice nothing, arrat and the default
\* case slice `vm.code[vm.pc+1 : vm.pc+opCode.Nargs+1]`
TraceSliceEnd(p) ==
    LET op == code[p + 1]
    IN  IF op = PUSH
        THEN IF p + code[p + 2] < Len(code) - p THEN p + code[p + 2] + 3 ELSE 0
        ELSE IF op \in {MAPPUSH, MAPGETVAL, NEWARR, ARRAPPEND, ARRINSERT, ARRREMOVE}
        THEN 0
        ELSE p + Nargs(op) + 1

\* trace() panics: an index is out of range, or the slice ends beyond
\* len(vm.code) and the capacity of the contract's slice does not cover it
\* (the capacity is the host's: either outcome is possible)
TracePanics ==
    /\ result = "running"
    /\ trace
    /\ IF TraceIndexOutOfRange(pc) THEN TRUE ELSE TraceSliceEnd(pc) > Len(code)
    /\ result' = "panic"
    /\ UNCHANGED <<minerVars, p2pVars, trace, context, code, pc, evaluationStack, callStack, fee,
                   lastOp, spent>>
    /\ NoContextCall /\ NoFrameChange

\* `if trace { vm.trace() }` returns, and the iteration goes on to fetch
TraceReturns == trace => ~ TraceIndexOutOfRange(pc)

\* fetch fails: the program counter is at or beyond the end of the code
FetchFails ==
    /\ result = "running"
    /\ TraceReturns
    /\ fetch(pc).err # ""
    /\ Fail(pc, evaluationStack, callStack, fetch(pc).err)
    /\ UNCHANGED <<minerVars, p2pVars, trace, context, code, fee, lastOp, spent>>
    /\ NoContextCall /\ NoFrameChange

\* `len(OpCodes) < int(opCode)`: the byte is not an opcode
NotAValidOpCode ==
    /\ result = "running"
    /\ TraceReturns
    /\ fetch(pc).err = ""
    /\ OpCodesLen < fetch(pc).val
    /\ Fail(pc + 1, evaluationStack, callStack, "Not a valid opCode")
    /\ UNCHANGED <<minerVars, p2pVars, trace, context, code, fee, lastOp, spent>>
    /\ NoContextCall /\ NoFrameChange

\* a byte equal to len(OpCodes) passes the validity check and indexes the
\* table out of range: `OpCodes[int(opCode)]` panics
OpCodeIndexPanics ==
    /\ result = "running"
    /\ TraceReturns
    /\ fetch(pc).err = ""
    /\ ~(OpCodesLen < fetch(pc).val)
    /\ ~(fetch(pc).val < OpCodesLen)
    /\ result' = "panic"
    /\ pc' = pc + 1
    /\ UNCHANGED <<minerVars, p2pVars, trace, context, code, fee, lastOp, spent, evaluationStack, callStack>>
    /\ NoContextCall /\ NoFrameChange

\* the gas check made after the instruction took its operand from the stack
OutOfGas_AfterPop ==
    /\ result = "running"
    /\ TraceReturns
    /\ fetch(pc).err = ""
    /\ fetch(pc).val < OpCodesLen
    /\ fee < GasPrice(fetch(pc).val)
    /\ Fail(pc + 1, StackPop(evaluationStack).stack, callStack, "out of gas")
    /\ UNCHANGED <<minerVars, p2pVars, trace, context, code, fee, lastOp, spent>>
    /\ NoContextCall /\ NoFrameChange

\* `fee < OpCodes[int(opCode)].gasPrice`
OutOfGas ==
    /\ result = "running"
    /\ TraceReturns
    /\ fetch(pc).err = ""
    /\ fetch(pc).val < OpCodesLen
    /\ fee < GasPrice(fetch(pc).val)
    /\ Fail(pc + 1, evaluationStack, callStack, "out of gas")
    /\ UNCHANGED <<minerVars, p2pVars, trace, context, code, fee, lastOp, spent>>
    /\ NoContextCall /\ NoFrameChange

\* the head of an iteration that reaches `switch opCode` with opcode op:
\* the opcode is fetched, is valid, and its gas price is paid
Dispatch(op) ==
    /\ result = "running"
    /\ TraceReturns
    /\ fetch(pc).err = ""
    /\ fetch(pc).val = op
    /\ ~(OpCodesLen < op)
    /\ ~(fee < GasPrice(op))
    /\ fee' = fee - GasPrice(op)
    /\ lastOp' = op
    /\ spent' = spent + GasPrice(op)
    /\ UNCHANGED <<minerVars, p2pVars, trace, context, code>>

-----------------------------------------------------------------------------
(* The opcodes *)

ExecPUSH ==
    /\ Dispatch(PUSH)
    /\ LET arg == fetch(pc + 1)
           byteCount == arg.val + 1
           bytes == fetchMany(arg.pc, byteCount)
           e == FirstError(<<arg.err, bytes.err>>)
       IN  IF e # ""
           THEN Fail(bytes.pc, evaluationStack, callStack, e)
           ELSE PushChecked(bytes.pc, evaluationStack, callStack, SetBytes(bytes.val))
    /\ NoContextCall /\ NoFrameChange

ExecDUP ==
    /\ Dispatch(DUP)
    /\ LET val == StackPeek(evaluationStack)
       IN  IF val.err # ""
           THEN Fail(pc + 1, evaluationStack, callStack, val.err)
           ELSE PushChecked(pc + 1, evaluationStack, callStack, val.val)
    /\ NoContextCall /\ NoFrameChange

ExecROLL ==
    /\ Dispatch(ROLL)
    /\ LET arg == fetch(pc + 1)
           index == Len(evaluationStack) - (arg.val + 2)
           newTos == StackPopIndexAt(evaluationStack, index)
       IN  IF arg.err # ""
           THEN Fail(arg.pc, evaluationStack, callStack, arg.err)
           ELSE IF index = -1
           THEN Continue(arg.pc, evaluationStack, callStack)
           ELSE IF arg.val >= Len(evaluationStack)
           THEN Fail(arg.pc, evaluationStack, callStack, "index out of bounds")
           ELSE IF newTos.err # ""
           THEN Fail(arg.pc, evaluationStack, callStack, newTos.err)
           ELSE PushChecked(arg.pc, newTos.stack, callStack, newTos.val)
    /\ NoContextCall /\ NoFrameChange

ExecPOP ==
    /\ Dispatch(POP)
    /\ LET r == StackPop(evaluationStack)
       IN  IF r.err # ""
           THEN Fail(pc + 1, r.stack, callStack, r.err)
           ELSE Continue(pc + 1, r.stack, callStack)
    /\ NoContextCall /\ NoFrameChange

\* big.Int.Div and big.Int.Mod: Euclidean division, for y # 0
EuclidMod(x, y) == x % Abs(y)
EuclidDiv(x, y) == IF y > 0 THEN x \div y ELSE -(x \div (-y))

RECURSIVE Pow2(_)
Pow2(n) == IF n = 0 THEN 1 ELSE 2 * Pow2(n - 1)

\* the value an arithmetic opcode leaves in `left` / `tos`
Arith(op, left, right) ==
    CASE op = ADD -> left + right
      [] op = SUB -> left - right
      [] op = MULT -> left * right
      [] op = DIV -> EuclidDiv(left, right)
      [] op = MOD -> EuclidMod(left, right)
      [] op = SHIFTL -> left * Pow2(right)
      [] op = SHIFTR -> left \div Pow2(right)

\* the test a comparison opcode makes on left.Cmp(&right)
Compare(op, left, right) ==
    CASE op = EQ -> left = right
      [] op = NEQ -> left # right
      [] op = LT -> left < right
      [] op = GT -> left > right
      [] op = LTE -> left <= right
      [] op = GTE -> left >= right

\* ADD, SUB, MULT
ExecArith(op) ==
    /\ Dispatch(op)
    /\ LET right == StackPop(evaluationStack)
           left == StackPop(right.stack)
           e == FirstError(<<right.err, left.err>>)
       IN  IF e # ""
           THEN Fail(pc + 1, left.stack, callStack, e)
           ELSE PushChecked(pc + 1, left.stack, callStack,
                            BigInt(Arith(op, Num(left.val), Num(right.val))))
    /\ NoContextCall /\ NoFrameChange

\* the zero test made before the left operand is popped
ExecDivMod_LeftStays(op) ==
    /\ Dispatch(op)
    /\ LET right == StackPop(evaluationStack)
           left == StackPop(right.stack)
           e == FirstError(<<right.err, left.err>>)
       IN  IF e # ""
           THEN Fail(pc + 1, left.stack, callStack, e)
           ELSE IF Num(right.val) = 0
           THEN Fail(pc + 1, right.stack, callStack, "Division by Zero")
           ELSE PushChecked(pc + 1, left.stack, callStack,
                            BigInt(Arith(op, Num(left.val), Num(right.val))))
    /\ NoContextCall /\ NoFrameChange

\* DIV, MOD
ExecDivMod(op) ==
    /\ Dispatch(op)
    /\ LET right == StackPop(evaluationStack)
           left == StackPop(right.stack)
           e == FirstError(<<right.err, left.err>>)
       IN  IF e # ""
           THEN Fail(pc + 1, left.stack, callStack, e)
           ELSE IF Num(right.val) = 0
           THEN Fail(pc + 1, left.stack, callStack, "Division by Zero")
           ELSE PushChecked(pc + 1, left.stack, callStack,
                            BigInt(Arith(op, Num(left.val), Num(right.val))))
    /\ NoContextCall /\ NoFrameChange

ExecNEG ==
    /\ Dispatch(NEG)
    /\ LET tos == StackPop(evaluationStack)
       IN  IF tos.err # ""
           THEN Fail(pc + 1, tos.stack, callStack, tos.err)
           ELSE PushUnchecked(pc + 1, tos.stack, callStack, BigInt(-Num(tos.val)))
    /\ NoContextCall /\ NoFrameChange

\* EQ, NEQ, LT, GT, LTE, GTE
ExecCompare(op) ==
    /\ Dispatch(op)
    /\ LET right == StackPop(evaluationStack)
           left == StackPop(right.stack)
           e == FirstError(<<right.err, left.err>>)
       IN  IF e # ""
           THEN Fail(pc + 1, left.stack, callStack, e)
           ELSE PushUnchecked(pc + 1, left.stack, callStack,
                              IF Compare(op, Num(left.val), Num(right.val))
                              THEN BigInt(1) ELSE BigInt(0))
    /\ NoContextCall /\ NoFrameChange

\* SHIFTL, SHIFTR
ExecShift(op) ==
    /\ Dispatch(op)
    /\ LET nrOfShifts == fetch(pc + 1)
           tos == StackPop(evaluationStack)
           e == FirstError(<<nrOfShifts.err, tos.err>>)
       IN  IF e # ""
           THEN Fail(nrOfShifts.pc, tos.stack, callStack, e)
           ELSE PushChecked(nrOfShifts.pc, tos.stack, callStack,
                            BigInt(Arith(op, Num(tos.val), nrOfShifts.val)))
    /\ NoContextCall /\ NoFrameChange

ExecNOP ==
    /\ Dispatch(NOP)
    /\ LET arg == fetch(pc + 1)
       IN  IF arg.err # ""
           THEN Fail(arg.pc, evaluationStack, callStack, arg.err)
           ELSE Continue(arg.pc, evaluationStack, callStack)
    /\ NoContextCall /\ NoFrameChange

\* the low 64 bits of a magnitude: its last eight bytes, leading zeros dropped
Low64(bs) == StripZeros(SubSeq(bs, IF Len(bs) > 8 THEN Len(bs) - 7 ELSE 1, Len(bs)))

\* big.Int.Int64 of a word: the low 64 bits of its magnitude, with its sign
\* (given here where those bits make a number of at most three bytes)
Int64(v) ==
    CASE v.kind = "int" -> v.num
      [] v.kind = "bytes" /\ Len(Low64(v.bytes)) <= 3 -> BytesToNat(Low64(v.bytes))

ExecJMP ==
    /\ Dispatch(JMP)
    /\ LET nextInstruction == fetchMany(pc + 1, 2)
       IN  IF nextInstruction.err # ""
           THEN Fail(nextInstruction.pc, evaluationStack, callStack, nextInstruction.err)
           ELSE Continue(BytesToNat(nextInstruction.val), evaluationStack, callStack)
    /\ NoContextCall /\ NoFrameChange

ExecJMPIF ==
    /\ Dispatch(JMPIF)
    /\ LET nextInstruction == fetchMany(pc + 1, 2)
           right == StackPop(evaluationStack)
           e == FirstError(<<nextInstruction.err, right.err>>)
       IN  IF e # ""
           THEN Fail(nextInstruction.pc, right.stack, callStack, e)
           ELSE IF Int64(right.val) = 1
           THEN Continue(BytesToNat(nextInstruction.val), right.stack, callStack)
           ELSE Continue(nextInstruction.pc, right.stack, callStack)
    /\ NoContextCall /\ NoFrameChange

\* Frame and CallStack
Frame(returnAddress, variables) ==
    [returnAddress |-> returnAddress, variables |-> variables]

\* `frame.variables[i] = v`
SetVariable(variables, i, v) ==
    [j \in (DOMAIN variables) \cup {i} |-> IF j = i THEN v ELSE variables[j]]

\* `frame.variables[i]`: the zero value of big.Int for an unset key
GetVariable(variables, i) ==
    IF i \in DOMAIN variables THEN variables[i] ELSE BigInt(0)

CallStackPeek(cs) ==
    IF Len(cs) > 0
    THEN [err |-> "", val |-> cs[Len(cs)]]
    ELSE [err |-> "peek on empty callstack", val |-> Frame(0, <<>>)]

CallStackPop(cs) == SubSeq(cs, 1, Len(cs) - 1)

RECURSIVE LoadArguments_TopFirst(_, _, _)
\* the loop counting up from 0: the top of the stack becomes variable 0;
\* i counts the arguments still to load, as in LoadArguments
LoadArguments_TopFirst(stk, i, variables) ==
    IF i < 0
    THEN [err |-> "", stack |-> stk, variables |-> variables]
    ELSE IF StackPop(stk).err # ""
    THEN [err |-> StackPop(stk).err, stack |-> stk, variables |-> variables]
    ELSE LoadArguments_TopFirst(StackPop(stk).stack, i - 1,
                                SetVariable(variables, Cardinality(DOMAIN variables),
                                            StackPop(stk).val))

RECURSIVE LoadArguments(_, _, _)
\* `for i := int(argsToLoad) - 1; i >= 0; i-- { frame.variables[i], err = Pop() ... }`
\* started at i with the variables set so far
LoadArguments(stk, i, variables) ==
    IF i < 0
    THEN [err |-> "", stack |-> stk, variables |-> variables]
    ELSE IF StackPop(stk).err # ""
    THEN [err |-> StackPop(stk).err, stack |-> stk, variables |-> variables]
    ELSE LoadArguments(StackPop(stk).stack, i - 1,
                       SetVariable(variables, i, StackPop(stk).val))

\* the body shared by CALL and a taken CALLIF, after the operands are read:
\* p is vm.pc, es the evaluation stack at that point
CallBody(p, es, returnAddress, argsToLoad) ==
    LET args == LoadArguments(es, argsToLoad - 1, <<>>)
    IN  IF returnAddress = 0 \/ returnAddress > Len(code)
        THEN /\ Fail(p, es, callStack, "ReturnAddress out of bounds")
             /\ NoFrameChange
        ELSE IF args.err # ""
        THEN /\ Fail(p, args.stack, callStack, args.err)
             /\ NoFrameChange
        ELSE /\ Continue(returnAddress, args.stack,
                         Append(callStack, Frame(p, args.variables)))
             /\ calls' = calls + 1
             /\ rets' = rets

ExecCALL ==
    /\ Dispatch(CALL)
    /\ LET returnAddressBytes == fetchMany(pc + 1, 2)
           argsToLoad == fetch(returnAddressBytes.pc)
           e == FirstError(<<returnAddressBytes.err, argsToLoad.err>>)
       IN  IF e # ""
           THEN /\ Fail(argsToLoad.pc, evaluationStack, callStack, e)
                /\ NoFrameChange
           ELSE CallBody(argsToLoad.pc, evaluationStack,
                         BytesToNat(returnAddressBytes.val), argsToLoad.val)
    /\ NoContextCall

ExecCALLIF ==
    /\ Dispatch(CALLIF)
    /\ LET returnAddressBytes == fetchMany(pc + 1, 2)
           argsToLoad == fetch(returnAddressBytes.pc)
           right == StackPop(evaluationStack)
           e == FirstError(<<returnAddressBytes.err, argsToLoad.err, right.err>>)
       IN  IF e # ""
           THEN /\ Fail(argsToLoad.pc, right.stack, callStack, e)
                /\ NoFrameChange
           ELSE IF Int64(right.val) = 1
           THEN CallBody(argsToLoad.pc, right.stack,
                         BytesToNat(returnAddressBytes.val), argsToLoad.val)
           ELSE /\ Continue(argsToLoad.pc, right.stack, callStack)
                /\ NoFrameChange
    /\ NoContextCall

\* reserved: the operands are consumed and nothing else happens
ExecCALLEXT ==
    /\ Dispatch(CALLEXT)
    /\ LET transactionAddress == fetchMany(pc + 1, 32)
           functionHash == fetchMany(transactionAddress.pc, 4)
           argsToLoad == fetch(functionHash.pc)
           e == FirstError(<<transactionAddress.err, functionHash.err, argsToLoad.err>>)
       IN  IF e # ""
           THEN Fail(argsToLoad.pc, evaluationStack, callStack, e)
           ELSE Continue(argsToLoad.pc, evaluationStack, callStack)
    /\ NoContextCall /\ NoFrameChange

ExecRET ==
    /\ Dispatch(RET)
    /\ LET callstackTos == CallStackPeek(callStack)
       IN  IF callstackTos.err # ""
           THEN /\ Fail(pc + 1, evaluationStack, callStack, callstackTos.err)
                /\ NoFrameChange
           ELSE /\ Continue(callstackTos.val.returnAddress, evaluationStack,
                            CallStackPop(callStack))
                /\ calls' = calls
                /\ rets' = rets + 1
    /\ NoContextCall

ExecSIZE ==
    /\ Dispatch(SIZE)
    /\ LET right == StackPop(evaluationStack)
       IN  IF right.err # ""
           THEN Fail(pc + 1, right.stack, callStack, right.err)
           ELSE PushChecked(pc + 1, right.stack, callStack,
                            BigInt(getElementMemoryUsage(right.val)))
    /\ NoContextCall /\ NoFrameChange

\* Context.GetContractVariable / SetContractVariable: the cells are indexed
\* from 0; an index that names no cell is an error
ContractVariableError(index) ==
    IF index < Len(contractVariables) THEN "" ELSE "Index out of bounds"

CtxCall(op, index, value) == [op |-> op, index |-> index, value |-> value]

\* sstore storing into the cell after the one its operand names
ExecSSTORE_NextCell ==
    /\ Dispatch(SSTORE)
    /\ LET index == fetch(pc + 1)
           value == StackPop(evaluationStack)
           e == FirstError(<<index.err, value.err>>)
       IN  IF e # ""
           THEN /\ Fail(index.pc, value.stack, callStack, e)
                /\ NoContextCall
           ELSE /\ ctxCalls' = Append(ctxCalls, CtxCall("set", index.val, value.val))
                /\ IF ContractVariableError(index.val + 1) # ""
                   THEN /\ Fail(index.pc, value.stack, callStack,
                                ContractVariableError(index.val + 1))
                        /\ contractVariables' = contractVariables
                   ELSE /\ Continue(index.pc, value.stack, callStack)
                        /\ contractVariables' =
                              [contractVariables EXCEPT ![index.val + 2] = value.val]
    /\ NoFrameChange

ExecSSTORE ==
    /\ Dispatch(SSTORE)
    /\ LET index == fetch(pc + 1)
           value == StackPop(evaluationStack)
           e == FirstError(<<index.err, value.err>>)
       IN  IF e # ""
           THEN /\ Fail(index.pc, value.stack, callStack, e)
                /\ NoContextCall
           ELSE /\ ctxCalls' = Append(ctxCalls, CtxCall("set", index.val, value.val))
                /\ IF ContractVariableError(index.val) # ""
                   THEN /\ Fail(index.pc, value.stack, callStack,
                                ContractVariableError(index.val))
                        /\ contractVariables' = contractVariables
                   ELSE /\ Continue(index.pc, value.stack, callStack)
                        /\ contractVariables' =
                              [contractVariables EXCEPT ![index.val + 1] = value.val]
    /\ NoFrameChange

\* store writing into the bottom frame of the call stack
ExecSTORE_BottomFrame ==
    /\ Dispatch(STORE)
    /\ LET address == fetch(pc + 1)
           right == StackPop(evaluationStack)
           e == FirstError(<<address.err, right.err>>)
           callstackTos == CallStackPeek(callStack)
       IN  IF e # ""
           THEN Fail(address.pc, right.stack, callStack, e)
           ELSE IF callstackTos.err # ""
           THEN Fail(address.pc, right.stack, callStack, callstackTos.err)
           ELSE Continue(address.pc, right.stack,
                         [callStack EXCEPT ![1].variables =
                             SetVariable(@, address.val, right.val)])
    /\ NoContextCall /\ NoFrameChange

ExecSTORE ==
    /\ Dispatch(STORE)
    /\ LET address == fetch(pc + 1)
           right == StackPop(evaluationStack)
           e == FirstError(<<address.err, right.err>>)
           callstackTos == CallStackPeek(callStack)
       IN  IF e # ""
           THEN Fail(address.pc, right.stack, callStack, e)
           ELSE IF callstackTos.err # ""
           THEN Fail(address.pc, right.stack, callStack, callstackTos.err)
           ELSE Continue(address.pc, right.stack,
                         [callStack EXCEPT ![Len(callStack)].variables =
                             SetVariable(@, address.val, right.val)])
    /\ NoContextCall /\ NoFrameChange

ExecSLOAD ==
    /\ Dispatch(SLOAD)
    /\ LET index == fetch(pc + 1)
       IN  IF index.err # ""
           THEN /\ Fail(index.pc, evaluationStack, callStack, index.err)
                /\ ctxCalls' = ctxCalls
           ELSE /\ ctxCalls' = Append(ctxCalls, CtxCall("get", index.val, BigInt(0)))
                /\ IF ContractVariableError(index.val) # ""
                   THEN Fail(index.pc, evaluationStack, callStack,
                             ContractVariableError(index.val))
                   ELSE PushChecked(index.pc, evaluationStack, callStack,
                                    contractVariables[index.val + 1])
    /\ contractVariables' = contractVariables
    /\ NoFrameChange

\* load reading the variables of the bottom frame of the call stack
ExecLOAD_BottomFrame ==
    /\ Dispatch(LOAD)
    /\ LET address == fetch(pc + 1)
           callstackTos == CallStackPeek(callStack)
           e == FirstError(<<address.err, callstackTos.err>>)
       IN  IF e # ""
           THEN Fail(address.pc, evaluationStack, callStack, e)
           ELSE PushChecked(address.pc, evaluationStack, callStack,
                            GetVariable(callStack[1].variables, address.val))
    /\ NoContextCall /\ NoFrameChange

ExecLOAD ==
    /\ Dispatch(LOAD)
    /\ LET address == fetch(pc + 1)
           callstackTos == CallStackPeek(callStack)
           e == FirstError(<<address.err, callstackTos.err>>)
       IN  IF e # ""
           THEN Fail(address.pc, evaluationStack, callStack, e)
           ELSE PushChecked(address.pc, evaluationStack, callStack,
                            GetVariable(callstackTos.val.variables, address.val))
    /\ NoContextCall /\ NoFrameChange

\* the host's account and transaction fields
GetAddress == [i \in 1..64 |-> i]
GetIssuer == [i \in 1..32 |-> 100 + i]
GetSender == [i \in 1..32 |-> 200 + i]

RECURSIVE LittleEndian(_, _)
\* binary.LittleEndian.PutUint64 into n bytes
LittleEndian(u, n) ==
    IF n = 0 THEN <<>> ELSE <<u % 256>> \o LittleEndian(u \div 256, n - 1)

\* the word ADDRESS, ISSUER, BALANCE, CALLER and CALLVAL push
EnvironmentWord(op) ==
    CASE op = ADDRESS -> SetBytes(GetAddress)
      [] op = ISSUER -> SetBytes(GetIssuer)
      [] op = BALANCE -> SetBytes(LittleEndian(context.balance, 8))
      [] op = CALLER -> SetBytes(GetSender)
      [] op = CALLVAL -> SetBytes(LittleEndian(context.amount, 8))

\* ADDRESS, ISSUER, BALANCE, CALLER, CALLVAL
ExecEnvironment(op) ==
    /\ Dispatch(op)
    /\ PushChecked(pc + 1, evaluationStack, callStack, EnvironmentWord(op))
    /\ NoContextCall /\ NoFrameChange

RECURSIVE CallData(_, _, _)
\* the loop of CALLDATA over td from index i (0-based) with stack stk
CallData(td, i, stk) ==
    IF ~(i < Len(td))
    THEN [err |-> "", stack |-> stk]
    ELSE LET length == td[i + 1]
             word == SetBytes(SubSeq(td, i + 2, i + length + 2))
         IN  IF Len(td) - i - 1 <= length
             THEN [err |-> "Index out of bounds", stack |-> stk]
             ELSE IF StackPush(stk, word).err # ""
             THEN [err |-> StackPush(stk, word).err, stack |-> stk]
             ELSE CallData(td, i + length + 2, StackPush(stk, word).stack)

ExecCALLDATA ==
    /\ Dispatch(CALLDATA)
    /\ LET r == CallData(context.transactionData, 0, evaluationStack)
       IN  IF r.err # ""
           THEN Fail(pc + 1, r.stack, callStack, r.err)
           ELSE Continue(pc + 1, r.stack, callStack)
    /\ NoContextCall /\ NoFrameChange

-----------------------------------------------------------------------------
(* Array and Map: sequences of byte strings, carried on the stack in their *)
(* wire form                                                               *)

\* a two-byte big-endian length
UI16Bytes(n) == <<n \div 256, n % 256>>

RECURSIVE EncodeElements(_)
\* repeat( len_be_u16(element) || element )
EncodeElements(elems) ==
    IF elems = <<>> THEN <<>>
    ELSE UI16Bytes(Len(elems[1])) \o elems[1] \o EncodeElements(Tail(elems))

RECURSIVE DecodeElements(_)
\* the inverse of EncodeElements; ok is FALSE for bytes that are no such form
DecodeElements(bs) ==
    IF bs = <<>> THEN [ok |-> TRUE, elems |-> <<>>]
    ELSE IF Len(bs) < 2 \/ Len(bs) < 2 + BytesToNat(SubSeq(bs, 1, 2))
    THEN [ok |-> FALSE, elems |-> <<>>]
    ELSE LET n == BytesToNat(SubSeq(bs, 1, 2))
             rest == DecodeElements(SubSeq(bs, 3 + n, Len(bs)))
         IN  [ok |-> rest.ok, elems |-> <<SubSeq(bs, 3, 2 + n)>> \o rest.elems]

\* Array.ToBigInt: 0x02 || elements
ArrayToBigInt(elems) == SetBytes(<<2>> \o EncodeElements(elems))

\* ArrayFromBigInt
ArrayFromBigInt(v) ==
    LET bs == Bytes(v)
    IN  IF bs = <<>> \/ bs[1] # 2
        THEN [err |-> "not an array", elems |-> <<>>]
        ELSE IF ~DecodeElements(Tail(bs)).ok
        THEN [err |-> "malformed array", elems |-> <<>>]
        ELSE [err |-> "", elems |-> DecodeElements(Tail(bs)).elems]

\* Map.ToBigInt: 0x01 || count || (key, value) elements; entries is the
\* sequence key1, value1, key2, value2, ...
MapToBigInt(entries) ==
    SetBytes(<<1>> \o UI16Bytes(Len(entries) \div 2) \o EncodeElements(entries))

\* MapFromBigInt
MapFromBigInt(v) ==
    LET bs == Bytes(v)
        body == DecodeElements(SubSeq(bs, 4, Len(bs)))
    IN  IF bs = <<>> \/ bs[1] # 1
        THEN [err |-> "not a map", entries |-> <<>>]
        ELSE IF Len(bs) < 3 \/ ~body.ok
                \/ Len(body.elems) # 2 * BytesToNat(SubSeq(bs, 2, 3))
        THEN [err |-> "malformed map", entries |-> <<>>]
        ELSE [err |-> "", entries |-> body.elems]

\* the position of key k among the entries (its key's index), 0 if absent
KeyIndex(entries, k) ==
    IF \E i \in 1..(Len(entries) \div 2) : entries[2 * i - 1] = k
    THEN 2 * (CHOOSE i \in 1..(Len(entries) \div 2) :
                 /\ entries[2 * i - 1] = k
                 /\ \A j \in 1..(i - 1) : entries[2 * j - 1] # k) - 1
    ELSE 0

\* Map.Append: the key must be absent
MapAppend(entries, k, v) ==
    IF KeyIndex(entries, k) # 0
    THEN [err |-> "key already exists", entries |-> entries]
    ELSE [err |-> "", entries |-> entries \o <<k, v>>]

\* Map.GetVal
MapGetVal(entries, k) ==
    IF KeyIndex(entries, k) = 0
    THEN [err |-> "key not found", val |-> <<>>]
    ELSE [err |-> "", val |-> entries[KeyIndex(entries, k) + 1]]

\* Map.SetVal: creates or overwrites
MapSetVal(entries, k, v) ==
    IF KeyIndex(entries, k) = 0
    THEN [err |-> "", entries |-> entries \o <<k, v>>]
    ELSE [err |-> "", entries |-> [entries EXCEPT ![KeyIndex(entries, k) + 1] = v]]

\* Map.Remove
MapRemove(entries, k) ==
    IF KeyIndex(entries, k) = 0
    THEN [err |-> "key not found", entries |-> entries]
    ELSE [err |-> "",
          entries |-> SubSeq(entries, 1, KeyIndex(entries, k) - 1)
                        \o SubSeq(entries, KeyIndex(entries, k) + 2, Len(entries))]

ExecNEWMAP ==
    /\ Dispatch(NEWMAP)
    /\ PushChecked(pc + 1, evaluationStack, callStack, MapToBigInt(<<>>))
    /\ NoContextCall /\ NoFrameChange

ExecMAPPUSH ==
    /\ Dispatch(MAPPUSH)
    /\ LET k == StackPop(evaluationStack)
           v == StackPop(k.stack)
           mbi == StackPop(v.stack)
           m == MapFromBigInt(mbi.val)
           e == FirstError(<<k.err, v.err, mbi.err, m.err>>)
       IN  IF e # ""
           THEN Fail(pc + 1, mbi.stack, callStack, e)
           ELSE PushChecked(pc + 1, mbi.stack, callStack,
                            MapToBigInt(MapAppend(m.entries, Bytes(k.val), Bytes(v.val)).entries))
    /\ NoContextCall /\ NoFrameChange

ExecMAPGETVAL ==
    /\ Dispatch(MAPGETVAL)
    /\ LET kbi == StackPop(evaluationStack)
           mbi == StackPop(kbi.stack)
           m == MapFromBigInt(mbi.val)
           v == MapGetVal(m.entries, Bytes(kbi.val))
           e == FirstError(<<kbi.err, mbi.err, m.err, v.err>>)
       IN  IF e # ""
           THEN Fail(pc + 1, mbi.stack, callStack, e)
           ELSE PushChecked(pc + 1, mbi.stack, callStack, SetBytes(v.val))
    /\ NoContextCall /\ NoFrameChange

ExecMAPSETVAL ==
    /\ Dispatch(MAPSETVAL)
    /\ LET k == StackPop(evaluationStack)
           v == StackPop(k.stack)
           mbi == StackPop(v.stack)
           m == MapFromBigInt(mbi.val)
           e == FirstError(<<k.err, v.err, mbi.err, m.err>>)
           set == MapSetVal(m.entries, Bytes(k.val), Bytes(v.val))
       IN  IF e # ""
           THEN Fail(pc + 1, mbi.stack, callStack, e)
           ELSE IF set.err # ""
           THEN Fail(pc + 1, mbi.stack, callStack, set.err)
           ELSE PushChecked(pc + 1, mbi.stack, callStack, MapToBigInt(set.entries))
    /\ NoContextCall /\ NoFrameChange

ExecMAPREMOVE ==
    /\ Dispatch(MAPREMOVE)
    /\ LET kbi == StackPop(evaluationStack)
           mbi == StackPop(kbi.stack)
           m == MapFromBigInt(mbi.val)
           e == FirstError(<<kbi.err, mbi.err, m.err>>)
       IN  IF e # ""
           THEN Fail(pc + 1, mbi.stack, callStack, e)
           ELSE PushChecked(pc + 1, mbi.stack, callStack,
                            MapToBigInt(MapRemove(m.entries, Bytes(kbi.val)).entries))
    /\ NoContextCall /\ NoFrameChange

ExecNEWARR ==
    /\ Dispatch(NEWARR)
    /\ PushUnchecked(pc + 1, evaluationStack, callStack, ArrayToBigInt(<<>>))
    /\ NoContextCall /\ NoFrameChange

\* ByteArrayToUI16: at most two bytes, big-endian
ByteArrayToUI16(bs) ==
    IF Len(bs) > 2
    THEN [err |-> "byte array to uint16 invalid", val |-> 0]
    ELSE [err |-> "", val |-> BytesToNat(bs)]

\* Array.Append: the element's length must fit the two-byte prefix
ArrayAppend(elems, e) ==
    IF Len(e) > 65535
    THEN [err |-> "element too large", elems |-> elems]
    ELSE [err |-> "", elems |-> Append(elems, e)]

\* Array.Insert: sets the element at index, which must be below the size
ArrayInsert(elems, index, e) ==
    IF index >= Len(elems)
    THEN [err |-> "Index out of bounds", elems |-> elems]
    ELSE [err |-> "", elems |-> [elems EXCEPT ![index + 1] = e]]

\* Array.Remove
ArrayRemove(elems, index) ==
    IF index >= Len(elems)
    THEN [err |-> "Index out of bounds", elems |-> elems]
    ELSE [err |-> "",
          elems |-> SubSeq(elems, 1, index) \o SubSeq(elems, index + 2, Len(elems))]

\* Array.At
ArrayAt(elems, index) ==
    IF index >= Len(elems)
    THEN [err |-> "Index out of bounds", val |-> <<>>]
    ELSE [err |-> "", val |-> elems[index + 1]]

ExecARRAPPEND ==
    /\ Dispatch(ARRAPPEND)
    /\ LET v == StackPop(evaluationStack)
           a == StackPop(v.stack)
           e == FirstError(<<v.err, a.err>>)
           arr == ArrayFromBigInt(a.val)
           appended == ArrayAppend(arr.elems, Bytes(v.val))
       IN  IF e # ""
           THEN Fail(pc + 1, a.stack, callStack, e)
           ELSE IF arr.err # ""
           THEN Fail(pc + 1, a.stack, callStack, arr.err)
           ELSE IF appended.err # ""
           THEN Fail(pc + 1, a.stack, callStack, "Invalid argument size of ARRAPPEND")
           ELSE PushChecked(pc + 1, a.stack, callStack, ArrayToBigInt(appended.elems))
    /\ NoContextCall /\ NoFrameChange

ExecARRINSERT ==
    /\ Dispatch(ARRINSERT)
    /\ LET i == StackPop(evaluationStack)
           e == StackPop(i.stack)
           a == StackPop(e.stack)
           arr == ArrayFromBigInt(a.val)
           index == ByteArrayToUI16(Bytes(i.val))
           inserted == ArrayInsert(arr.elems, index.val, Bytes(e.val))
       IN  IF i.err # ""
           THEN Fail(pc + 1, i.stack, callStack, i.err)
           ELSE IF ByteLen(i.val) > 2
           THEN Fail(pc + 1, i.stack, callStack, "Wrong index size")
           ELSE IF e.err # ""
           THEN Fail(pc + 1, e.stack, callStack, e.err)
           ELSE IF a.err # ""
           THEN Fail(pc + 1, a.stack, callStack, a.err)
           ELSE IF arr.err # ""
           THEN Fail(pc + 1, a.stack, callStack, arr.err)
           ELSE IF index.err # ""
           THEN Fail(pc + 1, a.stack, callStack, index.err)
           ELSE IF index.val >= Len(arr.elems)
           THEN Fail(pc + 1, a.stack, callStack, "Index out of bounds")
           ELSE IF inserted.err # ""
           THEN Fail(pc + 1, a.stack, callStack, inserted.err)
           ELSE PushChecked(pc + 1, a.stack, callStack, ArrayToBigInt(inserted.elems))
    /\ NoContextCall /\ NoFrameChange

ExecARRREMOVE ==
    /\ Dispatch(ARRREMOVE)
    /\ LET a == StackPop(evaluationStack)
           ba == fetchMany(pc + 1, 2)
           index == ByteArrayToUI16(ba.val)
           e == FirstError(<<a.err, ba.err>>)
           arr == ArrayFromBigInt(a.val)
           removed == ArrayRemove(arr.elems, index.val)
       IN  IF e # ""
           THEN Fail(ba.pc, a.stack, callStack, e)
           ELSE IF arr.err # ""
           THEN Fail(ba.pc, a.stack, callStack, arr.err)
           ELSE IF removed.err # ""
           THEN Fail(ba.pc, a.stack, callStack, removed.err)
           ELSE PushChecked(ba.pc, a.stack, callStack, ArrayToBigInt(removed.elems))
    /\ NoContextCall /\ NoFrameChange

\* the array is peeked, not popped
\* arrat taking its array off the stack, like the other array opcodes
ExecARRAT_PopsArray ==
    /\ Dispatch(ARRAT)
    /\ LET a == StackPop(evaluationStack)
           ba == fetchMany(pc + 1, 2)
           index == ByteArrayToUI16(ba.val)
           arr == ArrayFromBigInt(a.val)
           e == ArrayAt(arr.elems, index.val)
       IN  IF a.err # ""
           THEN Fail(pc + 1, evaluationStack, callStack, a.err)
           ELSE IF ba.err # ""
           THEN Fail(ba.pc, a.stack, callStack, ba.err)
           ELSE IF arr.err # ""
           THEN Fail(ba.pc, a.stack, callStack, arr.err)
           ELSE IF e.err # ""
           THEN Fail(ba.pc, a.stack, callStack, e.err)
           ELSE PushChecked(ba.pc, a.stack, callStack, SetBytes(e.val))
    /\ NoContextCall /\ NoFrameChange

ExecARRAT ==
    /\ Dispatch(ARRAT)
    /\ LET a == StackPeek(evaluationStack)
           ba == fetchMany(pc + 1, 2)
           index == ByteArrayToUI16(ba.val)
           arr == ArrayFromBigInt(a.val)
           e == ArrayAt(arr.elems, index.val)
       IN  IF a.err # ""
           THEN Fail(pc + 1, evaluationStack, callStack, a.err)
           ELSE IF ba.err # ""
           THEN Fail(ba.pc, evaluationStack, callStack, ba.err)
           ELSE IF arr.err # ""
           THEN Fail(ba.pc, evaluationStack, callStack, arr.err)
           ELSE IF e.err # ""
           THEN Fail(ba.pc, evaluationStack, callStack, e.err)
           ELSE PushChecked(ba.pc, evaluationStack, callStack, SetBytes(e.val))
    /\ NoContextCall /\ NoFrameChange

ExecSHA3 ==
    /\ Dispatch(SHA3)
    /\ LET right == StackPop(evaluationStack)
       IN  IF right.err # ""
           THEN Fail(pc + 1, right.stack, callStack, right.err)
           ELSE PushChecked(pc + 1, right.stack, callStack, Sha3Word(Bytes(right.val)))
    /\ NoContextCall /\ NoFrameChange

\* ecdsa.Verify decides on the key, the hash and the host's signature;
\* either answer is possible
ExecCHECKSIG ==
    /\ Dispatch(CHECKSIG)
    /\ LET publicKeySig == StackPop(evaluationStack)
           hash == StackPop(publicKeySig.stack)
           e == FirstError(<<publicKeySig.err, hash.err>>)
       IN  IF e # ""
           THEN Fail(pc + 1, hash.stack, callStack, e)
           ELSE IF ByteLen(publicKeySig.val) # 64
           THEN Fail(pc + 1, hash.stack, callStack, "Not a valid address")
           ELSE IF ByteLen(hash.val) # 32
           THEN Fail(pc + 1, hash.stack, callStack, "Not a valid hash")
           ELSE \E valid \in BOOLEAN :
                   PushUnchecked(pc + 1, hash.stack, callStack,
                                 IF valid THEN BigInt(1) ELSE BigInt(0))
    /\ NoContextCall /\ NoFrameChange

\* errhalt ending the execution like halt
ExecERRHALT_ReturnsTrue ==
    /\ Dispatch(ERRHALT)
    /\ result' = "true"
    /\ pc' = pc + 1
    /\ UNCHANGED <<evaluationStack, callStack>>
    /\ NoContextCall /\ NoFrameChange

\* errhalt putting the host's cells back to what they were before Exec
ExecERRHALT_RollsBack ==
    /\ Dispatch(ERRHALT)
    /\ result' = "false"
    /\ pc' = pc + 1
    /\ UNCHANGED <<evaluationStack, callStack>>
    /\ contractVariables' = [i \in 1 .. Len(contractVariables) |-> BigInt(6 + i)]
    /\ ctxCalls' = ctxCalls
    /\ NoFrameChange

ExecERRHALT ==
    /\ Dispatch(ERRHALT)
    /\ result' = "false"
    /\ pc' = pc + 1
    /\ UNCHANGED <<evaluationStack, callStack>>
    /\ NoContextCall /\ NoFrameChange

ExecHALT ==
    /\ Dispatch(HALT)
    /\ result' = "true"
    /\ pc' = pc + 1
    /\ UNCHANGED <<evaluationStack, callStack>>
    /\ NoContextCall /\ NoFrameChange

-----------------------------------------------------------------------------
(* The contracts, fees and transaction data the host may supply *)

\* `push` of the one-byte value n
Push1(n) == <<PUSH, 0, n>>

\* the instructions the enumerated contracts are built from; the operands
\* name jump targets inside, at the end of and beyond such a contract, the
\* storage cells 0 and 1 and a cell the host does not have
Menu ==
    { Push1(0), Push1(1), <<DUP>>, <<POP>>, <<ADD>>, <<NEG>>,
      <<JMP, 0, 0>>, <<JMP, 0, 4>>, <<JMP, 0, 200>>, <<JMPIF, 0, 7>>,
      <<CALL, 0, 0, 0>>, <<CALL, 0, 4, 0>>, <<CALL, 0, 7, 1>>,
      <<CALLIF, 0, 7, 0>>, <<RET>>,
      <<STORE, 0>>, <<LOAD, 0>>, <<SSTORE, 0>>, <<SLOAD, 0>>, <<SSTORE, 1>>,
      <<SLOAD, 5>>, <<NEWARR>>, <<HALT>>, <<ERRHALT>>,
      <<OpCodesLen>>, <<OpCodesLen + 1>> }

RECURSIVE MenuContracts(_)
\* the concatenations of at most n instructions of the menu
MenuContracts(n) ==
    IF n = 0 THEN { <<>> }
    ELSE MenuContracts(n - 1)
           \cup { c \o i : c \in MenuContracts(n - 1), i \in Menu }

RECURSIVE Repeat(_, _)
Repeat(bs, n) == IF n = 0 THEN <<>> ELSE bs \o Repeat(bs, n - 1)

\* the instruction pushing the bytes bs
PushBytes(bs) == <<PUSH, Len(bs) - 1>> \o bs

\* a contract of n bytes, each of them halt
HaltContract(n) == [i \in 1 .. n |-> HALT]

\* contracts written out, each with the fees and the transaction data it is run with
Scenario(contract, fees, data) ==
    [contract |-> contract, fees |-> fees, data |-> data]

AnyFee == (0..MaxFee) \cup {AmpleFee}

Scenarios ==
    { \* arithmetic, comparisons, shifts
      Scenario(Push1(7) \o Push1(2) \o <<ADD>> \o Push1(3) \o <<SUB>> \o Push1(2) \o <<MULT>>
                 \o Push1(4) \o <<DIV>> \o Push1(2) \o <<MOD, NEG, HALT>>, AnyFee, <<>>),
      Scenario(Push1(7) \o Push1(0) \o <<DIV, HALT>>, AnyFee, <<>>),
      Scenario(Push1(7) \o Push1(0) \o <<MOD, HALT>>, AnyFee, <<>>),
      Scenario(Push1(1) \o Push1(2) \o <<EQ>> \o Push1(2) \o <<NEQ>> \o Push1(2) \o <<LT>>
                 \o Push1(0) \o <<GT>> \o Push1(1) \o <<LTE>> \o Push1(1) \o <<GTE, HALT>>,
               AnyFee, <<>>),
      Scenario(Push1(1) \o <<SHIFTL, 3, SHIFTR, 1, NOP, 0, SIZE, HALT>>, AnyFee, <<>>),
      Scenario(Push1(1) \o Push1(2) \o Push1(3) \o <<ROLL, 1, ROLL, 2, ROLL, 3, HALT>>,
               AnyFee, <<>>),
      Scenario(Push1(1) \o Push1(2) \o <<ROLL, 0, POP, POP, POP>>, AnyFee, <<>>),
      \* call and ret with two arguments, locals, and a conditional call
      Scenario(Push1(5) \o Push1(6) \o <<CALL, 0, 11, 2, HALT>>
                 \o <<LOAD, 0, LOAD, 1, STORE, 0, LOAD, 2, RET>>, AnyFee, <<>>),
      Scenario(Push1(5) \o Push1(1) \o <<CALLIF, 0, 12, 1, HALT, HALT>>
                 \o <<LOAD, 0, CALL, 0, 19, 0, RET>> \o <<RET>>, AnyFee, <<>>),
      Scenario(Push1(5) \o Push1(0) \o <<CALLIF, 0, 12, 1, HALT, HALT, RET>>, AnyFee, <<>>),
      Scenario(Push1(5) \o Push1(1) \o <<CALLIF, 0, 0, 1, HALT>>, AnyFee, <<>>),
      Scenario(Push1(5) \o <<CALL, 0, 8, 3, HALT, RET>>, AnyFee, <<>>),
      Scenario(Push1(5) \o <<CALL, 0, 9, 1, HALT, RET>>, AnyFee, <<>>),
      Scenario(<<CALL, 0, 0, 0>>, AnyFee, <<>>),
      \* jumps: a loop that ends when the gas does, and a counted loop
      Scenario(Push1(1) \o <<JMPIF, 0, 0, HALT>>, AnyFee, <<>>),
      Scenario(Push1(1) \o <<JMPIF, 0, 200, HALT>>, AnyFee, <<>>),
      Scenario(Push1(0) \o <<JMPIF, 0, 6>> \o Push1(42) \o <<HALT>>, AnyFee, <<>>),
      Scenario(<<JMP, 0, 5, HALT, HALT>>, AnyFee, <<>>),
      \* storage
      Scenario(Push1(9) \o <<SSTORE, 0, SLOAD, 0, SLOAD, 1>> \o Push1(3) \o <<SSTORE, 1, SLOAD, 1>>
                 \o Push1(4) \o <<SSTORE, 2, HALT>>, AnyFee, <<>>),
      \* environment and transaction data
      Scenario(<<ADDRESS, POP, ISSUER, POP, BALANCE, POP, CALLER, POP, CALLVAL, HALT>>,
               AnyFee, <<>>),
      Scenario(<<CALLDATA, HALT>>, AnyFee, <<0, 5, 1, 1, 2>>),
      Scenario(<<CALLDATA, HALT>>, AnyFee, <<0, 5, 1, 1>>),
      \* maps
      Scenario(<<NEWMAP>> \o Push1(2) \o Push1(1) \o <<MAPPUSH>> \o Push1(1) \o <<MAPGETVAL, HALT>>,
               AnyFee, <<>>),
      Scenario(<<NEWMAP>> \o Push1(2) \o Push1(1) \o <<MAPPUSH>> \o Push1(3) \o Push1(1)
                 \o <<MAPPUSH>> \o Push1(1) \o <<MAPGETVAL, HALT>>, AnyFee, <<>>),
      Scenario(<<NEWMAP>> \o Push1(2) \o Push1(1) \o <<MAPSETVAL>> \o Push1(3) \o Push1(1)
                 \o <<MAPSETVAL>> \o Push1(1) \o <<MAPREMOVE>> \o Push1(1) \o <<MAPREMOVE, HALT>>,
               AnyFee, <<>>),
      Scenario(Push1(2) \o Push1(1) \o <<MAPGETVAL>>, AnyFee, <<>>),
      \* arrays
      Scenario(<<NEWARR>> \o Push1(5) \o <<ARRAPPEND>> \o Push1(6) \o <<ARRAPPEND, ARRAT, 0, 1, POP>>
                 \o Push1(7) \o Push1(0) \o <<ARRINSERT, ARRREMOVE, 0, 1, ARRAT, 0, 0, HALT>>,
               AnyFee, <<>>),
      Scenario(<<NEWARR, ARRAT, 0, 0, HALT>>, AnyFee, <<>>),
      Scenario(<<NEWARR, ARRREMOVE, 0, 0, HALT>>, AnyFee, <<>>),
      Scenario(<<NEWARR>> \o Push1(7) \o Push1(0) \o <<ARRINSERT, HALT>>, AnyFee, <<>>),
      \* hashing and signatures
      Scenario(Push1(5) \o <<SHA3, ADDRESS, CHECKSIG, HALT>>, AnyFee, <<>>),
      Scenario(<<CALLER, ADDRESS, CHECKSIG, HALT>>, AnyFee, <<>>),
      Scenario(<<ADDRESS, CALLER, CHECKSIG, HALT>>, AnyFee, <<>>),
      Scenario(<<ADDRESS, ADDRESS, CHECKSIG, HALT>>, AnyFee, <<>>),
      Scenario(<<CALLEXT>> \o Repeat(<<0>>, 37) \o <<HALT>>, AnyFee, <<>>),
      \* division by zero under a negative, a wide and a quota-filling left operand
      Scenario(Push1(3) \o <<NEG>> \o Push1(0) \o <<MOD, HALT>>, AnyFee, <<>>),
      Scenario(Push1(9) \o <<SSTORE, 0, ADDRESS>> \o Push1(0) \o <<DIV, HALT>>, AnyFee, <<>>),
      Scenario(<<ADDRESS, CALLER>> \o Push1(1) \o <<DUP, DUP>> \o Push1(0) \o <<DIV, HALT>>,
               {AmpleFee}, <<>>),
      Scenario(Push1(0) \o <<DIV, HALT>>, AnyFee, <<>>),
      \* a call that calls itself until the gas runs out
      Scenario(Push1(1) \o <<CALL, 0, 3, 0, HALT>>, AnyFee, <<>>),
      \* contracts at and just over the size limit
      Scenario(HaltContract(MaxCodeSize), {0, 1}, <<>>),
      Scenario(HaltContract(MaxCodeSize + 1), {0, 1}, <<>>),
      \* conditions other than 0 and 1: 2^64 + 1, 2^64, -1 and 2
      Scenario(<<PUSH, 8, 1, 0, 0, 0, 0, 0, 0, 0, 1, JMPIF, 0, 17>> \o Push1(42) \o <<HALT>>,
               AnyFee, <<>>),
      Scenario(<<PUSH, 8, 1, 0, 0, 0, 0, 0, 0, 0, 0, JMPIF, 0, 17>> \o Push1(42) \o <<HALT>>,
               AnyFee, <<>>),
      Scenario(<<PUSH, 8, 1, 0, 0, 0, 0, 0, 0, 0, 1, CALLIF, 0, 16, 0, HALT, RET>>,
               AnyFee, <<>>),
      Scenario(Push1(1) \o <<NEG, JMPIF, 0, 10>> \o Push1(42) \o <<HALT>>, AnyFee, <<>>),
      Scenario(Push1(2) \o <<JMPIF, 0, 9>> \o Push1(42) \o <<HALT>>, AnyFee, <<>>),
      Scenario(Push1(1) \o <<JMPIF, 0, 9>> \o Push1(42) \o <<HALT>>, AnyFee, <<>>),
      Scenario(Push1(2) \o <<CALLIF, 0, 8, 0, HALT, RET>>, AnyFee, <<>>),
      \* roll at every depth of a stack of four, and beyond it
      Scenario(Push1(1) \o Push1(2) \o Push1(3) \o Push1(4) \o <<ROLL, 0, ROLL, 1, ROLL, 2, ROLL, 3>>
                 \o <<ROLL, 4, HALT>>, AnyFee \cup {8}, <<>>),
      Scenario(<<ROLL, 0, HALT>>, AnyFee, <<>>),
      \* transaction data: one, two and three parameters, whole and cut off
      Scenario(<<CALLDATA, HALT>>, AnyFee, <<2, 1, 2, 3>>),
      Scenario(<<CALLDATA, HALT>>, AnyFee, <<3, 1, 2, 3, 4, 1, 0, 7, 0, 9>>),
      Scenario(<<CALLDATA, HALT>>, AnyFee, <<3>>),
      Scenario(<<CALLDATA, HALT>>, AnyFee, <<0, 5, 2, 1, 2>>),
      Scenario(Push1(1) \o <<CALLDATA, CALLDATA, HALT>>, AnyFee, <<0, 5, 0, 6>>),
      Scenario(<<ADDRESS, CALLER>> \o Push1(1) \o <<DUP, DUP, CALLDATA, HALT>>,
               {AmpleFee}, <<0, 5, 0>>),
      Scenario(<<ADDRESS, CALLER>> \o Push1(1) \o <<DUP, DUP, CALLDATA, HALT>>,
               {AmpleFee}, <<0, 5, 0, 6>>),
      \* arrat on an array of two above another word
      Scenario(Push1(9) \o <<NEWARR>> \o Push1(5) \o <<ARRAPPEND>> \o Push1(6)
                 \o <<ARRAPPEND, ARRAT, 0, 1, ARRAT, 0, 0, ARRAT, 0, 2, HALT>>, AnyFee \cup {8}, <<>>),
      \* a function that stores twice into a local and loads it, then calls
      \* a second function that loads the same local of its own frame
      Scenario(<<CALL, 0, 5, 0, HALT>>
                 \o Push1(7) \o <<STORE, 3, LOAD, 3>> \o Push1(8) \o <<STORE, 3, LOAD, 3>>
                 \o <<CALL, 0, 24, 0, RET>> \o <<LOAD, 3, RET>>, AnyFee \cup {12}, <<>>),
      \* checksig on a pushed hash and key: 32 and 64 bytes, a key that
      \* starts with a zero byte, a key of 63 bytes, a hash of 31 bytes
      Scenario(PushBytes(Repeat(<<1>>, 32)) \o PushBytes(Repeat(<<2>>, 64))
                 \o <<CHECKSIG, HALT>>, AnyFee, <<>>),
      Scenario(PushBytes(Repeat(<<1>>, 32)) \o PushBytes(<<0>> \o Repeat(<<2>>, 63))
                 \o <<CHECKSIG, HALT>>, AnyFee, <<>>),
      Scenario(PushBytes(Repeat(<<1>>, 32)) \o PushBytes(Repeat(<<2>>, 63))
                 \o <<CHECKSIG, HALT>>, AnyFee, <<>>),
      Scenario(PushBytes(Repeat(<<1>>, 31)) \o PushBytes(Repeat(<<2>>, 64))
                 \o <<CHECKSIG, HALT>>, AnyFee, <<>>),
      \* a function that stores into a local and calls a second function,
      \* which stores into the same and another local of its own frame
      Scenario(<<CALL, 0, 5, 0, HALT>>
                 \o Push1(7) \o <<STORE, 3, CALL, 0, 17, 0, LOAD, 3, RET>>
                 \o Push1(9) \o <<STORE, 3>> \o Push1(1) \o <<STORE, 4, RET>>,
               AnyFee \cup {12}, <<>>),
      \* two stores into the host's cells, then a failure: an sstore into a
      \* cell the host does not have, a division by zero, errhalt
      Scenario(Push1(9) \o <<SSTORE, 0>> \o Push1(3) \o <<SSTORE, 1>> \o Push1(4)
                 \o <<SSTORE, 5, HALT>>, AnyFee \cup {12}, <<>>),
      Scenario(Push1(9) \o <<SSTORE, 0>> \o Push1(3) \o <<SSTORE, 0>> \o Push1(4) \o Push1(0)
                 \o <<DIV, HALT>>, AnyFee \cup {12}, <<>>),
      Scenario(Push1(9) \o <<SSTORE, 1, ERRHALT>>, AnyFee \cup {8}, <<>>),
      Scenario(<<CALLEXT>> \o Repeat(<<0>>, 36), AnyFee, <<>>) }
    \cup
    { \* the stack filled up to its quota, then a few more instructions
      Scenario(<<ADDRESS, CALLER>> \o Push1(1) \o <<DUP, DUP>> \o i \o <<HALT>>,
               (3..7) \cup {AmpleFee}, <<>>) :
        i \in { <<DUP>>, <<DUP, DUP>>, <<NEWARR>>, <<DUP, NEWARR>>, <<DUP, NEG>>,
                <<DUP, DUP, EQ>>, <<CALL, 0, 0, 0>>, <<CALL, 0, 200, 0>>, <<ERRHALT>>,
                <<OpCodesLen + 1>>, <<RET>>, <<POP, JMP, 0>>, <<DUP, DUP, DUP>>,
                <<DUP, NEWMAP>>, <<DUP, SLOAD, 0>>, <<DUP, LOAD, 0>>,
                <<DUP, ROLL, 9>>, <<DUP, ROLL, 1>>, <<DUP, ROLL, 5>> } }

\* the host's storage cells before the execution
InitialContractVariables == <<BigInt(7), BigInt(8)>>

Contexts ==
    { [contract |-> c, fee |-> f, transactionData |-> <<>>, balance |-> 1, amount |-> 256] :
        c \in MenuContracts(MaxInstr), f \in 0..MaxFee }
    \cup
    UNION { { [contract |-> s.contract, fee |-> f, transactionData |-> s.data,
               balance |-> 1, amount |-> 256] : f \in s.fees } : s \in Scenarios }

\* the contexts Exec is run on with tracing: the empty contract, the
\* contracts of one instruction and the contracts written out
TracedContexts ==
    { [contract |-> c, fee |-> f, transactionData |-> <<>>, balance |-> 1, amount |-> 256] :
        c \in MenuContracts(1), f \in 0..MaxFee }
    \cup
    UNION { { [contract |-> s.contract, fee |-> f, transactionData |-> s.data,
               balance |-> 1, amount |-> 256] : f \in s.fees } : s \in Scenarios }

-----------------------------------------------------------------------------
(* The miner's block intake (miner package): incomingData and processBlock *)

Callers == 1 .. MaxCallers
Blocks == 1 .. MaxBlocks

\* storage.ReadClosedBlock(block.Hash) != nil
ReadClosedBlock(hash) == hash \in closedBlocks

\* no VM is running
VMNotRunning ==
    /\ trace = FALSE
    /\ context = [contract |-> <<>>, fee |-> 0, transactionData |-> <<>>,
                  balance |-> 0, amount |-> 0]
    /\ contractVariables = <<>>
    /\ code = <<>>
    /\ pc = 0
    /\ evaluationStack = <<>>
    /\ callStack = <<>>
    /\ fee = 0
    /\ result = "init"
    /\ lastOp = -1
    /\ spent = 0
    /\ calls = 0
    /\ rets = 0
    /\ ctxCalls = <<>>

\* the miner before any payload arrived: the mutex unlocked, every goroutine
\* waiting on BlockIn
MinerStart ==
    /\ BlockIn = <<>>
    /\ at = [g \in Callers |-> "receive"]
    /\ block = [g \in Callers |-> 0]
    /\ processBlockMutex = 0
    /\ receivedStash = <<>>
    /\ receivedBlockInTheMeantime = FALSE
    /\ validated = <<>>
    /\ broadcast = <<>>
    /\ delivered = 0
    /\ acquired = [g \in Callers |-> 0]
    /\ released = [g \in Callers |-> 0]

\* the network puts the payload of block b on BlockIn
BlockArrives(b) ==
    /\ delivered < MaxDeliveries
    /\ BlockIn' = Append(BlockIn, b)
    /\ delivered' = delivered + 1
    /\ UNCHANGED <<at, block, processBlockMutex, closedBlocks, receivedStash,
                   receivedBlockInTheMeantime, validated, broadcast, acquired, released>>
    /\ UNCHANGED <<vmVars, p2pVars>>

\* `block := <-p2p.BlockIn; processBlock(block)` up to the Lock call
IncomingData(g) ==
    /\ at[g] = "receive"
    /\ BlockIn # <<>>
    /\ block' = [block EXCEPT ![g] = Head(BlockIn)]
    /\ BlockIn' = Tail(BlockIn)
    /\ at' = [at EXCEPT ![g] = "lock"]
    /\ acquired' = [acquired EXCEPT ![g] = 0]
    /\ released' = [released EXCEPT ![g] = 0]
    /\ UNCHANGED <<processBlockMutex, closedBlocks, receivedStash,
                   receivedBlockInTheMeantime, validated, broadcast, delivered>>
    /\ UNCHANGED <<vmVars, p2pVars>>

\* processBlockMutex.Lock() taking the mutex whoever holds it
MutexLock_NoWait(g) ==
    /\ at[g] = "lock"
    /\ processBlockMutex' = g
    /\ acquired' = [acquired EXCEPT ![g] = @ + 1]
    /\ at' = [at EXCEPT ![g] = "read"]
    /\ UNCHANGED <<BlockIn, block, closedBlocks, receivedStash,
                   receivedBlockInTheMeantime, validated, broadcast, delivered, released>>
    /\ UNCHANGED <<vmVars, p2pVars>>

\* processBlockMutex.Lock()
MutexLock(g) ==
    /\ at[g] = "lock"
    /\ processBlockMutex = 0
    /\ processBlockMutex' = g
    /\ acquired' = [acquired EXCEPT ![g] = @ + 1]
    /\ at' = [at EXCEPT ![g] = "read"]
    /\ UNCHANGED <<BlockIn, block, closedBlocks, receivedStash,
                   receivedBlockInTheMeantime, validated, broadcast, delivered, released>>
    /\ UNCHANGED <<vmVars, p2pVars>>

\* the block is in closed storage: Unlock and return
AlreadyValidated(g) ==
    /\ at[g] = "read"
    /\ ReadClosedBlock(block[g])
    /\ processBlockMutex' = 0
    /\ released' = [released EXCEPT ![g] = @ + 1]
    /\ at' = [at EXCEPT ![g] = "receive"]
    /\ UNCHANGED <<BlockIn, block, closedBlocks, receivedStash,
                   receivedBlockInTheMeantime, validated, broadcast, delivered, acquired>>
    /\ UNCHANGED <<vmVars, p2pVars>>

\* storage.WriteToReceivedStash(block); receivedBlockInTheMeantime = true
WriteToReceivedStash(g) ==
    /\ at[g] = "read"
    /\ ~ ReadClosedBlock(block[g])
    /\ receivedStash' = Append(receivedStash, block[g])
    /\ receivedBlockInTheMeantime' = TRUE
    /\ at' = [at EXCEPT ![g] = "validate"]
    /\ UNCHANGED <<BlockIn, block, processBlockMutex, closedBlocks, validated, broadcast,
                   delivered, acquired, released>>
    /\ UNCHANGED <<vmVars, p2pVars>>

\* validate(block, false) and what follows it up to the Unlock call: a block
\* that validates enters closed storage and is handed to broadcastBlock
Validate(g) ==
    /\ at[g] = "validate"
    /\ validated' = Append(validated, block[g])
    /\ receivedBlockInTheMeantime' = FALSE
    /\ \E err \in BOOLEAN :
          IF err
          THEN UNCHANGED <<closedBlocks, broadcast>>
          ELSE /\ closedBlocks' = closedBlocks \cup {block[g]}
               /\ broadcast' = Append(broadcast, block[g])
    /\ at' = [at EXCEPT ![g] = "unlock"]
    /\ UNCHANGED <<BlockIn, block, processBlockMutex, receivedStash, delivered,
                   acquired, released>>
    /\ UNCHANGED <<vmVars, p2pVars>>

\* processBlockMutex.Unlock() at the end of processBlock
MutexUnlock(g) ==
    /\ at[g] = "unlock"
    /\ processBlockMutex' = 0
    /\ released' = [released EXCEPT ![g] = @ + 1]
    /\ at' = [at EXCEPT ![g] = "receive"]
    /\ UNCHANGED <<BlockIn, block, closedBlocks, receivedStash,
                   receivedBlockInTheMeantime, validated, broadcast, delivered, acquired>>
    /\ UNCHANGED <<vmVars, p2pVars>>


-----------------------------------------------------------------------------
(* The p2p server (p2p/server.go): bootstrap, initiateNewMinerConnection, peerConn *)

Addrs == 1 .. MaxAddrs

\* the peerConn goroutines there can be: one for each peer struct and the
\* one bootstrap starts without a peer
ConnIds == 1 .. (MaxPeers + 1)

\* Ipport, the address this node listens on
Ipport == 1

PEERTYPE_MINER == "miner"
PEERTYPE_CLIENT == "client"

\* newPeer(conn, listenerPort, peerType)
newPeer(addr, peerType) == [addr |-> addr, peerType |-> peerType]

\* peers.contains(ipport, PEERTYPE_MINER)
PeersContainMiner(ipport) == \E p \in minerConns : peerStructs[p].addr = ipport

\* peerExists(dial)
peerExists(dial) ==
    \E p \in minerConns \cup clientConns : peerStructs[p].addr = dial

\* peerSelfConn(dial)
peerSelfConn(dial) == dial = Ipport

\* how initiateNewMinerConnection(dial) can end: the peer is there already,
\* the address is this node's, net.Dial fails, no MINER_PONG comes, or the
\* handshake completes and the new peer is returned
InitiateOutcomes(dial) ==
    IF peerExists(dial) THEN {"already established"}
    ELSE IF peerSelfConn(dial) THEN {"self-connect"}
    ELSE {"dial failed", "no MINER_PONG", "ok"}

\* the history of a peer struct just made: the peerConn goroutines started
\* with it, its sends on register and on disconnect, the messages its
\* receive loop handed on, the peerConn goroutines its own goroutine started
NoHistory ==
    [peerConns |-> 0, registered |-> 0, disconnected |-> 0, messages |-> 0,
     replacements |-> 0]

\* a peerConn goroutine with argument p, before its first statement
PeerConn(p) == [p |-> p, at |-> "start"]

\* the p2p package when Init calls bootstrap
ServerStart ==
    /\ serverAt = "bootstrap"
    /\ peerStructs = <<>>
    /\ conns = <<>>
    /\ minerConns = {}
    /\ clientConns = {}
    /\ panicked = FALSE
    /\ history = <<>>

\* bootstrap(): the connection to the bootstrap server is initiated and
\* `go peerConn(p)` runs with what came back, error or not
bootstrap ==
    /\ serverAt = "bootstrap"
    /\ ~ panicked
    /\ \E outcome \in InitiateOutcomes(bootstrapServer) :
          IF outcome = "ok"
          THEN /\ peerStructs' = Append(peerStructs, newPeer(bootstrapServer, PEERTYPE_MINER))
               /\ conns' = Append(conns, PeerConn(Len(peerStructs) + 1))
               /\ history' = Append(history, [NoHistory EXCEPT !.peerConns = 1])
          ELSE /\ peerStructs' = peerStructs
               /\ conns' = Append(conns, PeerConn(0))
               /\ history' = history
    /\ serverAt' = "listening"
    /\ UNCHANGED <<bootstrapServer, minerConns, clientConns, panicked>>
    /\ UNCHANGED <<vmVars, minerVars>>

\* an incoming connection whose first message is a ping: the listener makes
\* the peer and the handshake ends in `go peerConn(p)`
IncomingPeer(addr, peerType) ==
    /\ serverAt = "listening"
    /\ ~ panicked
    /\ Len(peerStructs) < MaxPeers
    /\ peerStructs' = Append(peerStructs, newPeer(addr, peerType))
    /\ conns' = Append(conns, PeerConn(Len(peerStructs) + 1))
    /\ history' = Append(history, [NoHistory EXCEPT !.peerConns = 1])
    /\ UNCHANGED <<serverAt, bootstrapServer, minerConns, clientConns, panicked>>
    /\ UNCHANGED <<vmVars, minerVars>>

\* peerConn up to `register <- p`: p.peerType is read and p.ch is set, which
\* panics for a nil p
PeerConnStart(i) ==
    /\ i \in DOMAIN conns
    /\ conns[i].at = "start"
    /\ ~ panicked
    /\ IF conns[i].p = 0
       THEN /\ panicked' = TRUE
            /\ conns' = conns
       ELSE /\ panicked' = FALSE
            /\ conns' = [conns EXCEPT ![i].at = "register"]
    /\ UNCHANGED <<serverAt, bootstrapServer, peerStructs, minerConns, clientConns, history>>
    /\ UNCHANGED <<vmVars, minerVars>>

\* `register <- p`, taken by the peer service, and `go peerBroadcast(p)`
Register(i) ==
    /\ i \in DOMAIN conns
    /\ conns[i].at = "register"
    /\ ~ panicked
    /\ LET p == conns[i].p
       IN  /\ history' = [history EXCEPT ![p].registered = @ + 1]
           /\ IF peerStructs[p].peerType = PEERTYPE_MINER
              THEN minerConns' = minerConns \cup {p} /\ clientConns' = clientConns
              ELSE clientConns' = clientConns \cup {p} /\ minerConns' = minerConns
    /\ conns' = [conns EXCEPT ![i].at = "receive"]
    /\ UNCHANGED <<serverAt, bootstrapServer, peerStructs, panicked>>
    /\ UNCHANGED <<vmVars, minerVars>>

\* RcvData(p) returns a message: `go processIncomingMsg(p, header, payload)`
ReceiveMessage(i) ==
    /\ i \in DOMAIN conns
    /\ conns[i].at = "receive"
    /\ ~ panicked
    /\ history[conns[i].p].messages < MaxMsgs
    /\ history' = [history EXCEPT ![conns[i].p].messages = @ + 1]
    /\ UNCHANGED <<serverAt, bootstrapServer, peerStructs, conns, minerConns, clientConns,
                   panicked>>
    /\ UNCHANGED <<vmVars, minerVars>>

\* RcvData(p) returns an error and the goroutine, after `disconnect <- p`,
\* stays in its receive loop
ReceiveError_KeepsReceiving(i) ==
    /\ i \in DOMAIN conns
    /\ conns[i].at = "receive"
    /\ ~ panicked
    /\ history[conns[i].p].disconnected < 2
    /\ LET p == conns[i].p
       IN  /\ history' = [history EXCEPT ![p].disconnected = @ + 1]
           /\ minerConns' = minerConns \ {p}
           /\ clientConns' = clientConns \ {p}
           /\ conns' = conns
    /\ UNCHANGED <<serverAt, bootstrapServer, peerStructs, panicked>>
    /\ UNCHANGED <<vmVars, minerVars>>

\* RcvData(p) returns an error: `disconnect <- p`, taken by the peer
\* service; a miner's goroutine goes on to the reconnect, a client's returns
ReceiveError(i) ==
    /\ i \in DOMAIN conns
    /\ conns[i].at = "receive"
    /\ ~ panicked
    /\ LET p == conns[i].p
       IN  /\ history' = [history EXCEPT ![p].disconnected = @ + 1]
           /\ minerConns' = minerConns \ {p}
           /\ clientConns' = clientConns \ {p}
           /\ conns' = [conns EXCEPT ![i].at =
                           IF peerStructs[p].peerType = PEERTYPE_MINER
                           THEN "reconnect" ELSE "done"]
    /\ UNCHANGED <<serverAt, bootstrapServer, peerStructs, panicked>>
    /\ UNCHANGED <<vmVars, minerVars>>

\* after the sleep: unless a miner of that address is registered, a new
\* connection is initiated and, if that succeeds, peerConn started for it
Reconnect(i) ==
    /\ i \in DOMAIN conns
    /\ conns[i].at = "reconnect"
    /\ ~ panicked
    /\ LET p == conns[i].p
           dial == peerStructs[p].addr
       IN  IF PeersContainMiner(dial)
           THEN UNCHANGED <<peerStructs, history>> /\ conns' = [conns EXCEPT ![i].at = "done"]
           ELSE \E outcome \in InitiateOutcomes(dial) :
                   IF outcome = "ok"
                   THEN /\ Len(peerStructs) < MaxPeers
                        /\ peerStructs' = Append(peerStructs, newPeer(dial, PEERTYPE_MINER))
                        /\ conns' = Append([conns EXCEPT ![i].at = "done"],
                                           PeerConn(Len(peerStructs) + 1))
                        /\ history' = Append([history EXCEPT ![p].replacements = @ + 1],
                                              [NoHistory EXCEPT !.peerConns = 1])
                   ELSE /\ UNCHANGED <<peerStructs, history>>
                        /\ conns' = [conns EXCEPT ![i].at = "done"]
    /\ UNCHANGED <<serverAt, bootstrapServer, minerConns, clientConns, panicked>>
    /\ UNCHANGED <<vmVars, minerVars>>

\* the miner with some blocks already in closed storage
MinerInit ==
    /\ MinerStart
    /\ closedBlocks \in SUBSET Blocks
    /\ VMNotRunning
    /\ ServerStart
    /\ bootstrapServer = Ipport

MinerNext ==
    \/ \E b \in Blocks : BlockArrives(b)
    \/ \E g \in Callers : IncomingData(g)
    \/ \E g \in Callers : MutexLock(g)
    \/ \E g \in Callers : AlreadyValidated(g)
    \/ \E g \in Callers : WriteToReceivedStash(g)
    \/ \E g \in Callers : Validate(g)
    \/ \E g \in Callers : MutexUnlock(g)

MinerSpec == MinerInit /\ [][MinerNext]_vars

\* the p2p package at Init(ipport), with a bootstrap server's address
P2PInit ==
    /\ ServerStart
    /\ bootstrapServer \in Addrs
    /\ MinerStart
    /\ closedBlocks = {}
    /\ VMNotRunning

P2PNext ==
    \/ bootstrap
    \/ \E addr \in Addrs \ {Ipport}, peerType \in {PEERTYPE_MINER, PEERTYPE_CLIENT} :
          IncomingPeer(addr, peerType)
    \/ \E i \in ConnIds : PeerConnStart(i)
    \/ \E i \in ConnIds : Register(i)
    \/ \E i \in ConnIds : ReceiveMessage(i)
    \/ \E i \in ConnIds : ReceiveError(i)
    \/ \E i \in ConnIds : Reconnect(i)

P2PSpec == P2PInit /\ [][P2PNext]_vars

-----------------------------------------------------------------------------
(* The VM's specification *)

\* the state NewVM leaves, with a Context of the host
Init ==
    /\ trace \in BOOLEAN
    /\ context \in (IF trace THEN TracedContexts ELSE Contexts)
    /\ contractVariables = InitialContractVariables
    /\ code = <<>>
    /\ pc = 0
    /\ evaluationStack = <<>>
    /\ callStack = <<>>
    /\ fee = 0
    /\ result = "init"
    /\ lastOp = -1
    /\ spent = 0
    /\ calls = 0
    /\ rets = 0
    /\ ctxCalls = <<>>
    /\ MinerStart
    /\ closedBlocks = {}
    /\ ServerStart
    /\ bootstrapServer = Ipport

Next ==
    \/ ExecStart
    \/ TracePanics
    \/ FetchFails
    \/ NotAValidOpCode
    \/ OpCodeIndexPanics
    \/ OutOfGas
    \/ ExecPUSH
    \/ ExecDUP
    \/ ExecROLL
    \/ ExecPOP
    \/ \E op \in {ADD, SUB, MULT} : ExecArith(op)
    \/ \E op \in {DIV, MOD} : ExecDivMod(op)
    \/ ExecNEG
    \/ \E op \in {EQ, NEQ, LT, GT, LTE, GTE} : ExecCompare(op)
    \/ \E op \in {SHIFTL, SHIFTR} : ExecShift(op)
    \/ ExecNOP
    \/ ExecJMP
    \/ ExecJMPIF
    \/ ExecCALL
    \/ ExecCALLIF
    \/ ExecCALLEXT
    \/ ExecRET
    \/ ExecSIZE
    \/ ExecSSTORE
    \/ ExecSTORE
    \/ ExecSLOAD
    \/ ExecLOAD
    \/ \E op \in {ADDRESS, ISSUER, BALANCE, CALLER, CALLVAL} : ExecEnvironment(op)
    \/ ExecCALLDATA
    \/ ExecNEWMAP
    \/ ExecMAPPUSH
    \/ ExecMAPGETVAL
    \/ ExecMAPSETVAL
    \/ ExecMAPREMOVE
    \/ ExecNEWARR
    \/ ExecARRAPPEND
    \/ ExecARRINSERT
    \/ ExecARRREMOVE
    \/ ExecARRAT
    \/ ExecSHA3
    \/ ExecCHECKSIG
    \/ ExecERRHALT
    \/ ExecHALT

Spec == Init /\ [][Next]_vars

-----------------------------------------------------------------------------
(* Properties *)

Top(stk) == stk[Len(stk)]

\* the word is the error string msg
IsError(v, msg) == v = StrToBigInt(msg)

\* the loop is about to fetch an opcode byte that is in the code
AtInstruction == result = "running" /\ pc < Len(code)

\* the opcode byte about to be fetched (code is indexed from 1)
OpCodeByte == code[pc + 1]

\* the iteration about to run fetches op and can pay for it
AtOp(op) == AtInstruction /\ OpCodeByte = op /\ fee >= GasPrice(op)

\* C1: whenever Exec returns false, the evaluation stack is non-empty and its
\* top is a non-empty error string: after errhalt whatever non-empty word the
\* contract left there, on every other failure the error message the VM raised
C1_FalseLeavesErrorOnTop ==
    result = "false" =>
        /\ Len(evaluationStack) > 0
        /\ IF lastOp = ERRHALT
           THEN ByteLen(Top(evaluationStack)) > 0
           ELSE /\ Top(evaluationStack).kind = "str"
                /\ Top(evaluationStack).str # ""

\* C2: if Exec returns true, the opcode last dispatched, which is the byte
\* just before the program counter, is halt
C2_TrueOnlyByHalt ==
    result = "true" =>
        /\ lastOp = HALT
        /\ pc >= 1 /\ pc <= Len(code)
        /\ code[pc] = HALT

C2_Witness ==
    /\ result = "true"
    /\ lastOp = HALT
    /\ spent >= 3
    /\ Len(evaluationStack) > 0

\* the instruction about to run is a valid opcode whose price exceeds the remaining fee
Unpayable ==
    /\ AtInstruction
    /\ OpCodeByte < OpCodesLen
    /\ fee < GasPrice(OpCodeByte)

\* C3: once the fee is read, the remaining fee is GetFee() minus the gas
\* prices of the dispatched instructions, never increases and never is
\* negative; an instruction whose price exceeds the remaining fee is not
\* dispatched: Exec returns false with "out of gas" on top of the stack
C3_GasAccounting ==
    [][ /\ (result # "init" =>
              /\ fee' <= fee
              /\ fee' >= 0
              /\ fee' = context.fee - spent')
        /\ (Unpayable =>
              /\ result' = "false"
              /\ fee' = fee
              /\ spent' = spent
              /\ lastOp' = lastOp
              /\ Len(evaluationStack') > 0
              /\ IsError(Top(evaluationStack'), "out of gas")) ]_vars

\* Exec stops in this step with "out of gas" on top of the stack
StopsWithOutOfGas ==
    /\ result = "running"
    /\ result' = "false"
    /\ Len(evaluationStack') > 0
    /\ IsError(Top(evaluationStack'), "out of gas")

\* C4: an instruction that cannot be paid for pops nothing, changes no frame
\* and calls no SetContractVariable; when Exec stops with "out of gas" the
\* only change is that error string pushed on top
C4_OutOfGasHasNoSideEffect ==
    [][ /\ (Unpayable =>
              /\ Len(evaluationStack') >= Len(evaluationStack)
              /\ SubSeq(evaluationStack', 1, Len(evaluationStack)) = evaluationStack
              /\ callStack' = callStack
              /\ contractVariables' = contractVariables
              /\ ctxCalls' = ctxCalls)
        /\ (StopsWithOutOfGas =>
              /\ Unpayable
              /\ evaluationStack' = Append(evaluationStack, StrToBigInt("out of gas"))
              /\ callStack' = callStack
              /\ contractVariables' = contractVariables
              /\ ctxCalls' = ctxCalls
              /\ fee' = fee) ]_vars

\* Exec stopped with "out of gas" at an sstore, a store, a pop or a call
\* (the byte before the program counter), with words on the stack and the
\* storage as the host left it
C4_Witness ==
    /\ result = "false"
    /\ Len(evaluationStack) >= 2
    /\ IsError(Top(evaluationStack), "out of gas")
    /\ pc >= 1 /\ pc <= Len(code)
    /\ code[pc] \in {SSTORE, STORE, POP, CALL}
    /\ contractVariables = InitialContractVariables

\* C5: at the start of every iteration of the loop, 0 <= pc <= len(code)
C5_PcWithinCode ==
    result = "running" => 0 <= pc /\ pc <= Len(code)

\* the key about to be pushed by mappush is not yet in the map beneath
MapPushKeyAbsent ==
    LET n == Len(evaluationStack)
    IN  KeyIndex(MapFromBigInt(evaluationStack[n - 2]).entries,
                 Bytes(evaluationStack[n])) = 0

\* C6: no opcode proceeds to the next instruction after an operation inside
\* it failed: when the loop continues after newarr, neg, a comparison,
\* checksig, mappush or mapremove, the stack has the shape the opcode
\* contracts for (newarr: one word more, the empty array on top; neg: the
\* same length; a comparison or checksig: one word less, 0 or 1 on top;
\* mappush: two words less and the key was not in the map before;
\* mapremove: one word less)
C6_NoSilentFailure ==
    [][ (AtInstruction /\ fee >= GasPrice(OpCodeByte) /\ result' = "running") =>
          /\ (OpCodeByte = NEWARR =>
                /\ Len(evaluationStack') = Len(evaluationStack) + 1
                /\ Top(evaluationStack') = ArrayToBigInt(<<>>))
          /\ (OpCodeByte = NEG =>
                Len(evaluationStack') = Len(evaluationStack))
          /\ (OpCodeByte \in {EQ, NEQ, LT, GT, LTE, GTE, CHECKSIG} =>
                /\ Len(evaluationStack') = Len(evaluationStack) - 1
                /\ Top(evaluationStack') \in {BigInt(0), BigInt(1)})
          /\ (OpCodeByte = MAPPUSH =>
                /\ Len(evaluationStack') = Len(evaluationStack) - 2
                /\ MapPushKeyAbsent)
          /\ (OpCodeByte = MAPREMOVE =>
                Len(evaluationStack') = Len(evaluationStack) - 1) ]_vars

\* C7: a fetched byte that is not below the length of the opcode table makes
\* Exec return false with "Not a valid opCode" on top, with no gas charged
C7_InvalidOpCodeRejected ==
    [][ (AtInstruction /\ OpCodeByte >= OpCodesLen) =>
          /\ result' = "false"
          /\ Len(evaluationStack') > 0
          /\ IsError(Top(evaluationStack'), "Not a valid opCode")
          /\ fee' = fee ]_vars

\* the two-byte target of the call or callif about to run
CallTarget == 256 * code[pc + 2] + code[pc + 3]

\* a call, or a callif whose condition reads as 1, is about to run with its
\* three operand bytes inside the code
CallAttempt ==
    /\ pc + 4 <= Len(code)
    /\ \/ AtOp(CALL)
       \/ /\ AtOp(CALLIF)
          /\ Len(evaluationStack) > 0
          /\ Int64(Top(evaluationStack)) = 1

\* the evaluation stack the call's arguments are taken from: callif has
\* popped its condition
CallArguments ==
    IF OpCodeByte = CALLIF
    THEN SubSeq(evaluationStack, 1, Len(evaluationStack) - 1)
    ELSE evaluationStack

\* C8: a call or taken callif to target 0 or beyond len(code) makes Exec
\* return false with "ReturnAddress out of bounds", pushes no frame and pops
\* no argument; every target in 1 .. len(code) is accepted
C8_CallTargetChecked ==
    [][ CallAttempt =>
          IF CallTarget = 0 \/ CallTarget > Len(code)
          THEN /\ result' = "false"
               /\ callStack' = callStack
               /\ evaluationStack' =
                     Append(CallArguments, StrToBigInt("ReturnAddress out of bounds"))
          ELSE ~ (/\ Len(evaluationStack') > 0
                  /\ IsError(Top(evaluationStack'), "ReturnAddress out of bounds")) ]_vars

\* the arguments a call is about to load, counted by its third operand byte
CallArgCount == code[pc + 4]

\* a call, or a callif whose condition reads as 1, runs in this step and succeeds
SuccessfulCall == CallAttempt /\ result' = "running"

\* a ret runs in this step and succeeds
SuccessfulRet == AtOp(RET) /\ result' = "running"

\* C9: a successful call with argument count n pops exactly n words into
\* variables 0 .. n-1 of a new frame, variable n-1 getting the former top of
\* the stack, records the address just past its operands and jumps to its
\* target; a successful ret pops that frame and resumes at the recorded
\* address; a ret with no frame makes Exec return false; the depth of the
\* call stack always is the number of successful calls minus that of
\* successful rets
C9_CallRetPairing ==
    /\ Len(callStack) = calls - rets
    /\ [][ /\ (SuccessfulCall =>
                 LET n == CallArgCount
                     args == CallArguments
                     frame == Top(callStack')
                 IN  /\ callStack' = Append(callStack, frame)
                     /\ frame.returnAddress = pc + 4
                     /\ DOMAIN frame.variables = 0 .. (n - 1)
                     /\ Len(args) >= n
                     /\ \A i \in 0 .. (n - 1) :
                          frame.variables[i] = args[Len(args) - n + 1 + i]
                     /\ evaluationStack' = SubSeq(args, 1, Len(args) - n)
                     /\ pc' = CallTarget)
           /\ (AtOp(RET) =>
                 IF callStack = <<>>
                 THEN result' = "false" /\ callStack' = callStack
                 ELSE /\ result' = "running"
                      /\ callStack' = SubSeq(callStack, 1, Len(callStack) - 1)
                      /\ pc' = Top(callStack).returnAddress
                      /\ evaluationStack' = evaluationStack)
           /\ calls' = calls + (IF SuccessfulCall THEN 1 ELSE 0)
           /\ rets' = rets + (IF SuccessfulRet THEN 1 ELSE 0)
           /\ Len(callStack') = calls' - rets' ]_vars

\* a call nested in a callif has returned to the address after its operands
\* and the callif's frame, holding the former top 5 as variable 0, is next
C9_Witness ==
    /\ result = "running"
    /\ calls = 2
    /\ rets = 1
    /\ Len(callStack) = 1
    /\ Top(callStack).variables[0] = BigInt(5)
    /\ pc >= 4
    /\ code[pc - 3] = CALL

RECURSIVE LastStored(_, _)
\* what the host holds in cell index after the context calls of the log:
\* the value of the latest SetContractVariable on it, else the initial value
LastStored(log, index) ==
    IF log = <<>>
    THEN InitialContractVariables[index + 1]
    ELSE IF log[Len(log)].op = "set" /\ log[Len(log)].index = index
    THEN log[Len(log)].value
    ELSE LastStored(SubSeq(log, 1, Len(log) - 1), index)

\* C10: a successful sload i pushes the value of the most recent successful
\* sstore i of the execution, or the host's initial value of the cell; each
\* sstore and sload that has its operand (and, for sstore, its value) makes
\* exactly one context call, appended in program order, and no other step
\* makes one
C10_StorageOrdering ==
    [][ /\ ((AtOp(SLOAD) /\ pc + 2 <= Len(code)) =>
              /\ ctxCalls' = Append(ctxCalls, CtxCall("get", code[pc + 2], BigInt(0)))
              /\ contractVariables' = contractVariables
              /\ (result' = "running" =>
                    /\ code[pc + 2] < Len(InitialContractVariables)
                    /\ evaluationStack' =
                          Append(evaluationStack, LastStored(ctxCalls, code[pc + 2]))))
        /\ ((AtOp(SSTORE) /\ pc + 2 <= Len(code) /\ evaluationStack # <<>>) =>
              /\ ctxCalls' =
                    Append(ctxCalls, CtxCall("set", code[pc + 2], Top(evaluationStack)))
              /\ (result' = "running" <=> code[pc + 2] < Len(InitialContractVariables)))
        /\ (~ (AtInstruction /\ OpCodeByte \in {SLOAD, SSTORE}) =>
              /\ ctxCalls' = ctxCalls
              /\ contractVariables' = contractVariables) ]_vars

\* an sload has pushed a value that an sstore of this execution stored over
\* the host's initial value of the cell
C10_Witness ==
    /\ result = "running"
    /\ Len(ctxCalls) >= 2
    /\ ctxCalls[Len(ctxCalls)].op = "get"
    /\ \E k \in 1 .. (Len(ctxCalls) - 1) :
          /\ ctxCalls[k].op = "set"
          /\ ctxCalls[k].index = ctxCalls[Len(ctxCalls)].index
          /\ ctxCalls[k].index < Len(InitialContractVariables)
          /\ ctxCalls[k].value # InitialContractVariables[ctxCalls[k].index + 1]
    /\ Len(evaluationStack) > 0
    /\ Top(evaluationStack) = LastStored(ctxCalls, ctxCalls[Len(ctxCalls)].index)
    /\ Top(evaluationStack) # InitialContractVariables[ctxCalls[Len(ctxCalls)].index + 1]

\* C11: div and mod whose right operand, the top of the stack, is zero make
\* Exec return false with "Division by Zero" in place of the two operands,
\* whatever the left operand is, and leave the contract storage alone
C11_DivisionByZero ==
    [][ (/\ AtOp(DIV) \/ AtOp(MOD)
         /\ Len(evaluationStack) >= 2
         /\ Top(evaluationStack) = BigInt(0)) =>
          /\ result' = "false"
          /\ evaluationStack' =
                Append(SubSeq(evaluationStack, 1, Len(evaluationStack) - 2),
                       StrToBigInt("Division by Zero"))
          /\ contractVariables' = contractVariables
          /\ ctxCalls' = ctxCalls ]_vars

\* a div by zero under the 64-byte address word has failed after an sstore:
\* the stored 9 is still in cell 0
C11_Witness ==
    /\ result = "false"
    /\ lastOp = DIV
    /\ pc >= 1 /\ pc <= Len(code)
    /\ code[pc] = DIV
    /\ evaluationStack = <<StrToBigInt("Division by Zero")>>
    /\ contractVariables[1] = BigInt(9)

\* C12: for every program and every fee Exec eventually returns true or
\* false, the gas bounding the number of instructions: every iteration of
\* the loop either returns true or false or lowers the remaining fee, and
\* the fee is never negative
C12_Termination ==
    /\ [](result # "init" => fee >= 0 /\ spent <= context.fee)
    /\ [][ result = "running" =>
             \/ result' \in {"true", "false"}
             \/ result' = "running" /\ fee' < fee ]_vars

\* C13: a contract longer than 100000 bytes makes Exec return false with
\* "instruction set too big" on top of the stack, with no instruction
\* fetched and no gas consumed; a contract of exactly 100000 bytes is run
C13_InstructionSetTooBig ==
    [][ result = "init" =>
          IF Len(context.contract) > MaxCodeSize
          THEN /\ result' = "false"
               /\ evaluationStack' = <<StrToBigInt("instruction set too big")>>
               /\ pc' = 0
               /\ spent' = 0
               /\ lastOp' = lastOp
          ELSE result' = "running" ]_vars

\* the untraced Exec panics in the iteration at hand: the fetched byte is
\* the length of the opcode table
PanicsUntraced == pc < Len(code) /\ code[pc + 1] = OpCodesLen

\* C14: tracing is purely diagnostic: a traced Exec takes the steps of the
\* untraced one and so ends with the same boolean, stacks, pc and storage;
\* it never aborts where the untraced Exec does not, also not when pc
\* reaches len(code) or the code ends inside a push
C14_TraceIsDiagnostic ==
    [][ (trace /\ result = "running" /\ result' = "panic") => PanicsUntraced ]_vars

\* the two-byte operand of the jmpif about to run
JumpTarget == 256 * code[pc + 2] + code[pc + 3]

\* C15: jmpif and callif are taken exactly when the popped condition is the
\* integer 1: a jmpif that succeeds sets pc to its target if the condition
\* is 1 and otherwise falls through to the byte after its operands; a
\* callif whose condition is not 1 (0, negative, 2^64 + 1, ...) pushes no
\* frame and falls through, one whose condition is 1 performs the call
C15_TakenIffOne ==
    [][ /\ (AtOp(JMPIF) /\ Len(evaluationStack) > 0 /\ result' = "running") =>
              /\ evaluationStack' = SubSeq(evaluationStack, 1, Len(evaluationStack) - 1)
              /\ IF Top(evaluationStack) = BigInt(1)
                 THEN pc' = JumpTarget
                 ELSE pc' = pc + 3
        /\ (AtOp(CALLIF) /\ Len(evaluationStack) > 0 /\ pc + 4 <= Len(code)) =>
              IF Top(evaluationStack) = BigInt(1)
              THEN result' = "running" =>
                      /\ pc' = CallTarget
                      /\ Len(callStack') = Len(callStack) + 1
              ELSE /\ result' = "running"
                   /\ pc' = pc + 4
                   /\ callStack' = callStack
                   /\ evaluationStack' =
                         SubSeq(evaluationStack, 1, Len(evaluationStack) - 1) ]_vars

\* the operand of the roll about to run
RollArg == code[pc + 2]

\* C16: roll k on a stack of length L: if k >= L Exec returns false with an
\* index-out-of-bounds error on top; if k + 1 = L the stack is unchanged;
\* otherwise the element at depth k + 1 below the top is removed and becomes
\* the new top, the others keeping their order and the length staying L
C16_Roll ==
    [][ (AtOp(ROLL) /\ pc + 2 <= Len(code)) =>
          LET k == RollArg
              L == Len(evaluationStack)
          IN  IF k >= L
              THEN /\ result' = "false"
                   /\ Len(evaluationStack') > 0
                   /\ IsError(Top(evaluationStack'), "index out of bounds")
              ELSE IF k + 1 = L
              THEN /\ result' = "running"
                   /\ evaluationStack' = evaluationStack
              ELSE /\ result' = "running"
                   /\ evaluationStack' =
                         SubSeq(evaluationStack, 1, L - k - 2)
                           \o SubSeq(evaluationStack, L - k, L)
                           \o <<evaluationStack[L - k - 1]>> ]_vars

RECURSIVE WellFormed(_)
\* the transaction data is a concatenation of parameters, each one length
\* byte len followed by len + 1 data bytes
WellFormed(td) ==
    IF td = <<>> THEN TRUE
    ELSE IF Len(td) < td[1] + 2 THEN FALSE
    ELSE WellFormed(SubSeq(td, td[1] + 3, Len(td)))

RECURSIVE Parameters(_)
\* the unsigned big-endian values of the parameters of well-formed data, in order
Parameters(td) ==
    IF td = <<>> THEN <<>>
    ELSE <<SetBytes(SubSeq(td, 2, td[1] + 2))>>
           \o Parameters(SubSeq(td, td[1] + 3, Len(td)))

\* C17: on well-formed transaction data of m parameters calldata pushes
\* exactly their m values, the first deepest and the last on top (given the
\* stack has room for them); on data that ends inside a parameter Exec
\* returns false with "Index out of bounds" on top; empty data pushes nothing
C17_CallData ==
    [][ AtOp(CALLDATA) =>
          LET td == context.transactionData
          IN  IF WellFormed(td)
              THEN (memoryUsage(evaluationStack \o Parameters(td)) <= MemoryMax) =>
                      /\ result' = "running"
                      /\ evaluationStack' = evaluationStack \o Parameters(td)
              ELSE /\ result' = "false"
                   /\ Len(evaluationStack') > 0
                   /\ IsError(Top(evaluationStack'), "Index out of bounds") ]_vars

\* the two-byte index operand of the arrat about to run
ArrAtIndex == 256 * code[pc + 2] + code[pc + 3]

\* C18: a successful arrat with index i leaves the evaluation stack as it
\* was, the array word included, with one more word on top: element i of
\* the array that is directly beneath it
C18_ArrAtKeepsArray ==
    [][ (AtOp(ARRAT) /\ result' = "running") =>
          /\ Len(evaluationStack) > 0
          /\ ArrayFromBigInt(Top(evaluationStack)).err = ""
          /\ ArrAtIndex < Len(ArrayFromBigInt(Top(evaluationStack)).elems)
          /\ evaluationStack' =
                Append(evaluationStack,
                       SetBytes(ArrayFromBigInt(Top(evaluationStack)).elems[ArrAtIndex + 1])) ]_vars

\* arrat 0 1 has pushed element 1, the 6, of the array [5, 6] that still
\* lies beneath it, above the 9 at the bottom
C18_Witness ==
    /\ result = "running"
    /\ lastOp = ARRAT
    /\ pc >= 3 /\ pc <= Len(code)
    /\ code[pc - 2] = ARRAT /\ code[pc] = 1
    /\ evaluationStack = <<BigInt(9), ArrayToBigInt(<<<<5>>, <<6>>>>), BigInt(6)>>

\* variable i of the top call-stack frame as the contract sees it: what the
\* frame holds under i, the zero word when it holds nothing
FrameVariable(i) ==
    IF i \in DOMAIN callStack[Len(callStack)].variables
    THEN callStack[Len(callStack)].variables[i]
    ELSE BigInt(0)

\* the call stack with word v put under variable i of its top frame and
\* everything else as it is
FrameVariableSet(i, v) ==
    [k \in 1 .. Len(callStack) |->
        IF k < Len(callStack) THEN callStack[k]
        ELSE [returnAddress |-> callStack[k].returnAddress,
              variables |-> [j \in (DOMAIN callStack[k].variables) \cup {i} |->
                                IF j = i THEN v ELSE callStack[k].variables[j]]]]

\* C19: load i and store i on an empty call stack make Exec return false;
\* otherwise store i puts the popped word under variable i of the top frame
\* and nothing else in the call stack changes, a load i that goes on has
\* pushed variable i of the top frame, the zero word when the frame never
\* got one, and it does go on for an unset variable when the zero word fits;
\* no step but store, call, callif and ret touches the call stack, so the
\* word a load finds is the one the latest store i of the frame put there
C19_FrameVariables ==
    [][ /\ ((AtOp(LOAD) /\ pc + 2 <= Len(code)) =>
              /\ callStack' = callStack
              /\ IF callStack = <<>>
                 THEN result' = "false"
                 ELSE /\ (result' = "running" =>
                            evaluationStack' =
                               Append(evaluationStack, FrameVariable(code[pc + 2])))
                      /\ ((/\ code[pc + 2] \notin DOMAIN callStack[Len(callStack)].variables
                           /\ hasEnoughMemory(evaluationStack, BigInt(0)))
                            => /\ result' = "running"
                               /\ Top(evaluationStack') = BigInt(0)))
        /\ ((AtOp(STORE) /\ pc + 2 <= Len(code)) =>
              IF callStack = <<>> \/ evaluationStack = <<>>
              THEN result' = "false" /\ callStack' = callStack
              ELSE /\ result' = "running"
                   /\ callStack' = FrameVariableSet(code[pc + 2], Top(evaluationStack))
                   /\ evaluationStack' =
                         SubSeq(evaluationStack, 1, Len(evaluationStack) - 1))
        /\ (~ (AtInstruction /\ OpCodeByte \in {STORE, CALL, CALLIF, RET}) =>
              callStack' = callStack) ]_vars

\* in a frame whose variable 3 was stored twice, first 7 then 8, the second
\* load 3 has pushed the 8 above the 7 the first load pushed
C19_Witness ==
    /\ result = "running"
    /\ lastOp = LOAD
    /\ pc >= 2 /\ pc <= Len(code)
    /\ code[pc - 1] = LOAD /\ code[pc] = 3
    /\ Len(callStack) = 1
    /\ 3 \in DOMAIN callStack[1].variables
    /\ callStack[1].variables[3] = BigInt(8)
    /\ evaluationStack = <<BigInt(7), BigInt(8)>>

\* where the second instruction of the contract starts when the first is a
\* push (an index into code, which is indexed from 1)
SecondPush == code[2] + 4

\* the contract starts with two pushes, the hash and then the key, and the
\* checksig about to run directly follows them
CheckSigOnPushed ==
    /\ AtOp(CHECKSIG)
    /\ Len(code) >= 2 /\ code[1] = PUSH
    /\ SecondPush + 1 <= Len(code) /\ code[SecondPush] = PUSH
    /\ pc = SecondPush + code[SecondPush + 1] + 2
    /\ Len(evaluationStack) = 2

\* the bytes the contract gave as the hash and as the public key
PushedHash == SubSeq(code, 3, code[2] + 3)
PushedKey == SubSeq(code, SecondPush + 2, SecondPush + code[SecondPush + 1] + 2)

\* C20: checksig takes the key from the top and the hash from beneath it;
\* a key that is not exactly 64 bytes makes Exec return false with "Not a
\* valid address", else a hash that is not exactly 32 bytes with "Not a
\* valid hash"; a key of 64 bytes, a leading zero byte included, with a
\* hash of 32 bytes does not fail and leaves exactly 1 or 0
C20_CheckSig ==
    [][ CheckSigOnPushed =>
          IF Len(PushedKey) # 64
          THEN /\ result' = "false"
               /\ evaluationStack' = <<StrToBigInt("Not a valid address")>>
          ELSE IF Len(PushedHash) # 32
          THEN /\ result' = "false"
               /\ evaluationStack' = <<StrToBigInt("Not a valid hash")>>
          ELSE /\ result' = "running"
               /\ evaluationStack' \in {<<BigInt(1)>>, <<BigInt(0)>>} ]_vars

\* the number of immediate bytes of the instruction about to run: push has
\* its length byte and one byte more than that byte says
ImmediateBytes ==
    IF OpCodeByte = PUSH
    THEN IF pc + 2 <= Len(code) THEN code[pc + 2] + 2 ELSE 1
    ELSE Nargs(OpCodeByte)

\* the instruction about to run is paid for and lies within the code, its
\* last immediate byte included
InstructionWithinCode ==
    /\ AtInstruction
    /\ OpCodeByte < OpCodesLen
    /\ fee >= GasPrice(OpCodeByte)
    /\ pc + 1 + ImmediateBytes <= Len(code)

\* C21: an instruction whose opcode byte and immediate bytes all lie within
\* the code, the last byte of the code included, is decoded: it does not
\* fail with "instructionSet out of bounds"; such a jmp sets pc to its
\* target and such a push, when the stack has room, pushes its value
C21_ImmediatesWithinCode ==
    [][ InstructionWithinCode =>
          /\ ~ (/\ result' = "false"
                /\ Len(evaluationStack') > 0
                /\ IsError(Top(evaluationStack'), instructionSetOutOfBounds))
          /\ (OpCodeByte = JMP =>
                /\ result' = "running"
                /\ pc' = 256 * code[pc + 2] + code[pc + 3])
          /\ ((/\ OpCodeByte = PUSH
               /\ hasEnoughMemory(evaluationStack,
                                  SetBytes(SubSeq(code, pc + 3, pc + 1 + ImmediateBytes))))
                => /\ result' = "running"
                   /\ evaluationStack' =
                         Append(evaluationStack,
                                SetBytes(SubSeq(code, pc + 3, pc + 1 + ImmediateBytes)))) ]_vars

\* C22: no step changes a frame that is below the top of the call stack:
\* a store leaves every frame but the top as it is, a call or callif puts
\* its frame on top of the unchanged caller's frame, and a ret takes off
\* one frame only, so the caller's locals come back as they were at the call
C22_FrameIsolation ==
    [][ /\ \A k \in 1 .. (Len(callStack) - 1) :
              k <= Len(callStack') /\ callStack'[k] = callStack[k]
        /\ Len(callStack') >= Len(callStack) - 1
        /\ (Len(callStack') > Len(callStack) =>
              /\ Len(callStack') = Len(callStack) + 1
              /\ SubSeq(callStack', 1, Len(callStack)) = callStack)
        /\ ((AtOp(STORE) /\ callStack # <<>>) =>
              SubSeq(callStack', 1, Len(callStack) - 1)
                 = SubSeq(callStack, 1, Len(callStack) - 1)) ]_vars

\* the caller stored 7 under variable 3, the callee stored 9 under its own
\* variable 3 and 1 under 4 and returned: the caller's load 3 has pushed 7
\* and its frame holds nothing under 4
C22_Witness ==
    /\ result = "running"
    /\ lastOp = LOAD
    /\ calls = 2 /\ rets = 1
    /\ Len(callStack) = 1
    /\ DOMAIN callStack[1].variables = {3}
    /\ callStack[1].variables[3] = BigInt(7)
    /\ evaluationStack = <<BigInt(7)>>

RECURSIVE Replay(_)
\* the host's cells after the context calls of the log: the initial cells
\* with every SetContractVariable on a cell the host has applied in order
Replay(log) ==
    IF log = <<>>
    THEN InitialContractVariables
    ELSE LET last == log[Len(log)]
             cells == Replay(SubSeq(log, 1, Len(log) - 1))
         IN  IF last.op = "set" /\ last.index < Len(cells)
             THEN [cells EXCEPT ![last.index + 1] = last.value]
             ELSE cells

\* the SetContractVariable calls of the log
SetCalls(log) == SelectSeq(log, LAMBDA c : c.op = "set")

\* C23: contract storage always is the host's initial storage with the
\* sstores that succeeded so far applied in execution order, and it still
\* is when Exec returns false; the step on which Exec returns false changes
\* no cell and, unless it is the failing sstore's own call, makes no
\* SetContractVariable call
C23_NoRollback ==
    /\ contractVariables = Replay(ctxCalls)
    /\ [][ (result = "running" /\ result' = "false") =>
             /\ contractVariables' = contractVariables
             /\ contractVariables' = Replay(ctxCalls')
             /\ IF AtOp(SSTORE)
                THEN SubSeq(ctxCalls', 1, Len(ctxCalls)) = ctxCalls
                ELSE SetCalls(ctxCalls') = SetCalls(ctxCalls) ]_vars

\* Exec has returned false on an sstore into a cell the host does not have,
\* and the cells hold the 9 and the 3 the two sstores before it stored
C23_Witness ==
    /\ result = "false"
    /\ lastOp = SSTORE
    /\ Len(ctxCalls) = 3
    /\ contractVariables = <<BigInt(9), BigInt(3)>>
    /\ contractVariables # InitialContractVariables

-----------------------------------------------------------------------------
(* Properties of the miner's block intake *)

\* the goroutines between processBlockMutex.Lock and Unlock
InsideProcessBlockMutex == { g \in Callers : at[g] \in {"read", "validate", "unlock"} }

\* goroutine g returns from processBlock in this step
ReturnsFromProcessBlock(g) == at[g] # "receive" /\ at'[g] = "receive"

\* C24: at most one goroutine at a time is between Lock and Unlock of
\* processBlockMutex, and it is the one holding the mutex; a goroutine that
\* returns from processBlock has locked once and unlocked once, and never
\* has unlocked more often than locked; a block that is in closed storage
\* is neither written to the received stash nor given to validate
C24_ProcessBlockSerialized ==
    /\ [](/\ Cardinality(InsideProcessBlockMutex) <= 1
          /\ \A g \in Callers :
                /\ g \in InsideProcessBlockMutex <=> processBlockMutex = g
                /\ released[g] <= acquired[g]
                /\ acquired[g] <= 1
                /\ g \in InsideProcessBlockMutex <=> acquired[g] = released[g] + 1)
    /\ [][ /\ \A g \in Callers :
                ReturnsFromProcessBlock(g) => acquired'[g] = 1 /\ released'[g] = 1
           /\ (receivedStash' # receivedStash =>
                 /\ Len(receivedStash') = Len(receivedStash) + 1
                 /\ ~ ReadClosedBlock(receivedStash'[Len(receivedStash')]))
           /\ (validated' # validated =>
                 /\ Len(validated') = Len(validated) + 1
                 /\ ~ ReadClosedBlock(validated'[Len(validated')])) ]_vars

\* the same block came to two goroutines: one wrote it to the stash and
\* validated it into closed storage, the other found it there; both have
\* returned, each having locked and unlocked the mutex once
C24_Witness ==
    /\ \A g \in Callers : at[g] = "receive" /\ acquired[g] = 1 /\ released[g] = 1
    /\ block[1] # 0 /\ block[1] = block[2]
    /\ receivedStash = <<block[1]>>
    /\ validated = <<block[1]>>
    /\ ReadClosedBlock(block[1])
    /\ processBlockMutex = 0

-----------------------------------------------------------------------------
(* Properties of the p2p server *)

\* bootstrap returns in this step
BootstrapReturns == serverAt = "bootstrap" /\ serverAt' = "listening"

\* C25: bootstrap starts peerConn only for a peer that completed the miner
\* handshake: when initiateNewMinerConnection returns an error, so that no
\* peer struct comes back, bootstrap starts no peerConn goroutine; no
\* peerConn goroutine ever has a nil peer, and none dereferences one
C25_BootstrapStartsHandshakedPeer ==
    /\ [](/\ ~ panicked
          /\ \A i \in DOMAIN conns : conns[i].p # 0)
    /\ [][ BootstrapReturns =>
             IF peerStructs' = peerStructs
             THEN conns' = conns
             ELSE /\ Len(peerStructs') = Len(peerStructs) + 1
                  /\ conns' = Append(conns, PeerConn(Len(peerStructs'))) ]_vars

\* the receive loop of peer p hands a message to processIncomingMsg in this step
ProcessesMessage(p) == history'[p].messages > history[p].messages

====
